---- MODULE Spec2Model ----
(***************************************************************************)
(* A model of the website security scanner's checkers.                     *)
(*                                                                         *)
(*   check-blacklist.js      the DNSBL checker (SpecBL)                    *)
(*   check-dead-domains.js   the liveness checker (SpecDD)                 *)
(*   download-assets.js      the crawler (SpecCR) and its sitemap          *)
(*                           resolver parseSitemap (SpecSM)                *)
(*   check-safebrowsing.js   the malicious-URL checker, followed by        *)
(*   send-report.js          the reporter, as run-scan.sh runs them        *)
(*                           (SpecReport)                                  *)
(*   run-scan.sh             the stages of a scan (SpecPipeline)           *)
(*                                                                         *)
(* SpecNorm applies the two extractDomain functions to one target written  *)
(* with and without a scheme.                                              *)
(*                                                                         *)
(* JavaScript strings are modelled as sequences of tokens (a word, or one  *)
(* punctuation character), so that startsWith, includes, split, join and   *)
(* template strings are computed, not assumed.  "https://a.com/p" is       *)
(* <<"https", ":", "/", "/", "a", ".", "com", "/", "p">>.                  *)
(***************************************************************************)
EXTENDS Integers, Sequences, FiniteSets, TLC

VARIABLES
    blArgs,      \* process.argv.slice(2)
    blPc,        \* where the blacklist checker is suspended
    blDomain,    \* const domain = extractDomain(input)
    blIdx,       \* index of the list whose query is awaited
    blIp,        \* const ip = ips[0]
    results,     \* let results = []
    listed,      \* let listed = false
    details,     \* let details = []
    blInflight,  \* DNS queries issued and not yet settled
    blQueried,   \* every DNS query issued so far, in order
    blReplies,   \* what the resolver answered, per settled query
    blConsole,   \* console.warn / console.error lines
    blReport,    \* reports/blacklist-report.json (<<>> while not written)
    blExit       \* process exit code (<<>> while running)

blVars == <<blArgs, blPc, blDomain, blIdx, blIp, results, listed, details,
            blInflight, blQueried, blReplies, blConsole, blReport, blExit>>

VARIABLES
    ddPc,          \* where the liveness checker's run() is
    ddRefs,        \* number of page references read so far
    ddCalls,       \* every (url, source) addFinding has been called with
    scriptMap,     \* let scriptMap = new Map(): filename -> script entry
    ddScanned,     \* the files of js_assets the loop has been through
    domainSources, \* Map domain -> Set of sources, in insertion order
    domainsToCheck,\* the filtered domain list
    ddPending,     \* dns.resolve calls whose callback has not run yet
    ddLookups,     \* every dns.resolve call and the error code it got
    deadDomains,   \* const deadDomains = []
    ddFindings,    \* reports/dead-domains.json (<<>> while not written)
    ddExit         \* process exit code (<<>> while running)

ddVars == <<ddPc, ddRefs, ddCalls, scriptMap, ddScanned, domainSources,
            domainsToCheck, ddPending, ddLookups, deadDomains, ddFindings, ddExit>>

\* The crawler (download-assets.js).
VARIABLES
    crArgs,                  \* process.argv.slice(2)
    crEnv,                   \* process.env: the three list settings
    crPc,                    \* where the async main function is suspended
    sitemapPages,            \* what parseSitemap resolved to
    pagesToVisit,
    crCandidates,            \* pagesToVisit as it was before the prefix filter
    crIdx,                   \* position of the page loop in pagesToVisit
    seenPages,               \* const seenPages = new Set()
    seenScripts,             \* const seenScripts = new Set()
    allFoundUrls,
    downloadedScriptsData,
    downloadedScriptsCount,
    crScripts,               \* scripts of the page being handled
    crSIdx,                  \* position of the script loop in crScripts
    crInflight,              \* the downloadFile call being awaited
    crClock,                 \* the last value Date.now() gave
    jsAssets,                \* the files of the js_assets directory
    crConsole,               \* console.log / console.error, in order
    foundUrlsFile,           \* found_urls.json
    downloadedScriptsFile,   \* downloaded_scripts.json
    scanMetadata,            \* reports/scan-metadata.json
    crExit

crFiles == <<foundUrlsFile, downloadedScriptsFile, scanMetadata>>

crVars == <<crArgs, crEnv, crPc, sitemapPages, pagesToVisit, crCandidates, crIdx, seenPages, seenScripts,
            allFoundUrls, downloadedScriptsData, downloadedScriptsCount,
            crScripts, crSIdx, crInflight, crClock, jsAssets, crConsole,
            crFiles, crExit>>

VARIABLES
    smPc,                    \* "idle", "start", "resolving", "done"
    smWeb,                   \* what every sitemap URL answers
    smStack,                 \* the parseSitemap calls in progress, outermost first
    smResult,                \* what the outermost call returned: <<>> or <<urls>>
    smConsole                \* console.log / console.error lines of parseSitemap

smVars == <<smPc, smWeb, smStack, smResult, smConsole>>

VARIABLES
    sbArgs,                  \* process.argv.slice(2)
    sbKey,                   \* process.env.GOOGLE_SAFE_BROWSING_KEY: <<>> or <<value>>
    sbPc,                    \* "idle", "start", "await response", "exited"
    sbRequests,              \* the URLs sent to the API, in order
    sbReport,                \* safebrowsing-report.json: <<>> or <<report>>
    sbConsole,
    sbExit                   \* <<>> while running, <<code>> once exited

sbVars == <<sbArgs, sbKey, sbPc, sbRequests, sbReport, sbConsole, sbExit>>

VARIABLES
    rpPc,                    \* "idle", "start", "await content", "await mail", "done"
    retireReport,            \* reports/retire-report.json as generateReport found it
    clamavReport,            \* reports/clamav-report.txt
    deadDomainsReport,       \* reports/dead-domains.json
    blacklistReport,         \* reports/blacklist-report.json
    retireIssues,
    clamavIssues,
    deadDomainIssues,
    blacklistIssues,
    totalIssues,             \* <<>> before it is computed, then <<n>>
    reportHtml,              \* reports/report.html: <<>> or <<what its body is made from>>
    subject,                 \* the label of the mail subject: <<>> or <<label>>
    mailSent                 \* "no", "pending", "ok", "failed"

rpFiles == <<retireReport, clamavReport, deadDomainsReport, blacklistReport>>

rpCounts == <<retireIssues, clamavIssues, deadDomainIssues, blacklistIssues>>

rpVars == <<rpPc, rpFiles, rpCounts, totalIssues, reportHtml, subject, mailSent>>

VARIABLES
    nmHost,                  \* the host and the path of the target
    nmPath,
    nmBL,                    \* extractDomain of check-blacklist.js, per form of the target
    nmDD                     \* extractDomain of check-dead-domains.js, per form

nmVars == <<nmHost, nmPath, nmBL, nmDD>>

VARIABLES
    plPc,                    \* "idle", or the number of the stage to run next
    plRan,                   \* the stages run so far with their exit codes
    plExit                   \* exit code of run-scan.sh: <<>> or <<code>>

plVars == <<plPc, plRan, plExit>>

vars == <<blVars, ddVars, crVars, smVars, sbVars, rpVars, nmVars, plVars>>

(***************************************************************************)
(* Strings as token sequences.                                             *)
(***************************************************************************)
StartsWith(s, p) == Len(s) >= Len(p) /\ SubSeq(s, 1, Len(p)) = p

Includes(s, p) == \E i \in 0..(Len(s) - Len(p)) : SubSeq(s, i + 1, i + Len(p)) = p

ArrIncludes(arr, x) == \E i \in 1..Len(arr) : arr[i] = x

Reverse(s) == [i \in 1..Len(s) |-> s[Len(s) + 1 - i]]

RECURSIVE Join(_, _)
Join(parts, sep) ==
    IF parts = <<>> THEN <<>>
    ELSE IF Len(parts) = 1 THEN parts[1]
    ELSE parts[1] \o sep \o Join(Tail(parts), sep)

RECURSIVE Split(_, _)
Split(s, sep) ==
    IF \A i \in 1..Len(s) : s[i] # sep THEN <<s>>
    ELSE LET i == CHOOSE k \in 1..Len(s) :
                      s[k] = sep /\ \A j \in 1..(k - 1) : s[j] # sep
         IN  <<SubSeq(s, 1, i - 1)>> \o Split(SubSeq(s, i + 1, Len(s)), sep)

\* Sequences over S without repetition, of length lo..hi.
InjSeqs(S, lo, hi) ==
    {s \in UNION {[1..k -> S] : k \in lo..hi} :
        \A i, j \in 1..Len(s) : i # j => s[i] # s[j]}

(***************************************************************************)
(* check-blacklist.js                                                      *)
(***************************************************************************)
HTTP == <<"http", ":", "/", "/">>
HTTPS == <<"https", ":", "/", "/">>

\* new url.URL(u).hostname for the inputs of this model: a special scheme,
\* "//", then a non-empty host up to the first "/"; anything else throws.
Invalid == <<"<invalid>">>

URLHostname(u) ==
    IF ~(StartsWith(u, HTTP) \/ StartsWith(u, HTTPS)) THEN Invalid
    ELSE LET rest == SubSeq(u, 5, Len(u))
             host == Split(rest, "/")[1]
         IN  IF host = <<>> THEN Invalid ELSE host

\* Variant of extractDomain without the branch for "//": the scheme and
\* two more slashes are put in front of every input that has none.
extractDomainNoRelative(inputUrl, input) ==
    LET parsed ==
            IF ~StartsWith(inputUrl, HTTP) /\ ~StartsWith(inputUrl, HTTPS)
            THEN IF Includes(inputUrl, <<"/">>)
                 THEN URLHostname(HTTPS \o inputUrl)
                 ELSE inputUrl
            ELSE URLHostname(inputUrl)
    IN  IF parsed = Invalid THEN input ELSE parsed

extractDomain(inputUrl, input) ==
    LET parsed ==
            IF ~StartsWith(inputUrl, HTTP) /\ ~StartsWith(inputUrl, HTTPS)
            THEN IF Includes(inputUrl, <<"/">>)
                 THEN IF StartsWith(inputUrl, <<"/", "/">>)
                      THEN URLHostname(<<"https", ":">> \o inputUrl)
                      ELSE URLHostname(HTTPS \o inputUrl)
                 ELSE inputUrl
            ELSE URLHostname(inputUrl)
    IN  IF parsed = Invalid THEN input ELSE parsed

BLACKLISTS ==
    << [name |-> "Spamhaus DBL", suffix |-> "dbl.spamhaus.org", type |-> "domain",
        ignoreCodes |-> <<"127.255.255.254", "127.255.255.255">>],
       [name |-> "SURBL", suffix |-> "multi.surbl.org", type |-> "domain",
        ignoreCodes |-> <<>>],
       [name |-> "URIBL", suffix |-> "multi.uribl.com", type |-> "domain",
        ignoreCodes |-> <<"127.0.0.1">>] >>

IP_BLACKLISTS ==
    << [name |-> "Spamhaus ZEN", suffix |-> "zen.spamhaus.org",
        ignoreCodes |-> <<"127.255.255.254", "127.255.255.255">>] >>

writeReport(status, code, det) ==
    [domain |-> blDomain, status |-> status, details |-> det]

reverseIP(ip) == Join(Reverse(Split(ip, ".")), <<".">>)

\* `${target}.${list.suffix}`
QueryName(target, list) == target \o <<".", list.suffix>>

(***************************************************************************)
(* The resolver: what dns.resolve / dns.resolve4 can answer.               *)
(***************************************************************************)
MaxCodes == 2

Codes == {"127.255.255.254", "127.255.255.255", "127.0.0.1"}

DnsErrors == {"ENOTFOUND", "ETIMEOUT"}

\* An answer holds at least one address and no address twice (an RRset).
DnsReplies ==
    {[ok |-> TRUE, addresses |-> a, code |-> ""] : a \in InjSeqs(Codes, 1, MaxCodes)}
    \cup {[ok |-> FALSE, addresses |-> <<>>, code |-> c] : c \in DnsErrors}

IPs == { <<"192", ".", "0", ".", "2", ".", "1">>,
         <<"198", ".", "51", ".", "100", ".", "7">> }

Resolve4Replies ==
    {[ok |-> TRUE, addresses |-> a, code |-> ""] : a \in InjSeqs(IPs, 1, 2)}
    \cup {[ok |-> FALSE, addresses |-> <<>>, code |-> c] : c \in DnsErrors}

\* checkDNS: a not-found error is "not listed", any other error is rethrown.
checkDNS(reply) ==
    IF reply.ok
    THEN [threw |-> FALSE, listed |-> TRUE, addresses |-> reply.addresses]
    ELSE IF reply.code = "ENOTFOUND"
         THEN [threw |-> FALSE, listed |-> FALSE, addresses |-> <<>>]
         ELSE [threw |-> TRUE, listed |-> FALSE, addresses |-> <<>>]

ignoredOf(list, addresses) ==
    SelectSeq(addresses, LAMBDA addr : ArrIncludes(list.ignoreCodes, addr))

\* Variants of realListingsOf: no filter at all; the filter of the first
\* list applied to every list.
realListingsUnfiltered(list, addresses) == addresses

realListingsFirstList(list, addresses) ==
    SelectSeq(addresses, LAMBDA addr : ~ArrIncludes(BLACKLISTS[1].ignoreCodes, addr))

realListingsOf(list, addresses) ==
    SelectSeq(addresses, LAMBDA addr : ~ArrIncludes(list.ignoreCodes, addr))

\* The detail line of a listing: `${name}: LISTED (${codes})` for a domain
\* list, `${name} (IP ${ip}): LISTED (${codes})` for an IP list.
DetailLine(list, ip, codes) ==
    IF ip = <<>>
    THEN <<list.name, ": LISTED (">> \o Join([i \in 1..Len(codes) |-> <<codes[i]>>], <<", ">>) \o <<")">>
    ELSE <<list.name, " (IP ">> \o ip \o <<"): LISTED (">>
            \o Join([i \in 1..Len(codes) |-> <<codes[i]>>], <<", ">>) \o <<")">>

\* Variant of AfterCheck in which listed is the verdict of the last oracle.
AfterCheckLastWins(list, reply, ip) ==
    LET result == checkDNS(reply)
        realListings == realListingsOf(list, result.addresses)
        hit == ~result.threw /\ result.listed /\ Len(realListings) > 0
    IN  [results |-> IF hit
                     THEN Append(results, [source |-> list.name, listed |-> TRUE,
                                           codes |-> realListings, ip |-> ip])
                     ELSE results,
         details |-> IF hit THEN Append(details, DetailLine(list, ip, realListings))
                     ELSE details,
         listed |-> hit,
         console |-> blConsole]

\* The body of one loop iteration after `await checkDNS(query)` has settled,
\* the same for both loops: the new results, details, listed and console.
\* ip is <<>> in the domain loop.
AfterCheck(list, reply, ip) ==
    LET result == checkDNS(reply)
        ignored == ignoredOf(list, result.addresses)
        realListings == realListingsOf(list, result.addresses)
        warn == IF ~result.threw /\ result.listed /\ Len(ignored) > 0
                THEN <<[kind |-> "WARN refused", source |-> list.name, codes |-> ignored]>>
                ELSE <<>>
        hit == ~result.threw /\ result.listed /\ Len(realListings) > 0
        fail == IF hit
                THEN <<[kind |-> "FAIL listed", source |-> list.name, codes |-> realListings]>>
                ELSE <<>>
        err == IF result.threw
               THEN <<[kind |-> "ERROR check failed", source |-> list.name, codes |-> <<>>]>>
               ELSE <<>>
    IN  [results |-> IF hit
                     THEN Append(results, [source |-> list.name, listed |-> TRUE,
                                           codes |-> realListings, ip |-> ip])
                     ELSE results,
         details |-> IF hit THEN Append(details, DetailLine(list, ip, realListings))
                     ELSE details,
         listed |-> IF hit THEN TRUE ELSE listed,
         console |-> blConsole \o warn \o fail \o err]

CleanDetails == <<"Domain and IP not listed in checked blacklists.">>

\* Variants of Finish: the values of listed and details from before the
\* last iteration; exit code 0 on both branches.
FinishStale(l, d) ==
    /\ blReport' = IF listed THEN <<writeReport("listed", "MULTIPLE", Join(details, <<"; ">>))>>
                   ELSE <<writeReport("clean", "", CleanDetails)>>
    /\ blExit' = IF listed THEN <<1>> ELSE <<0>>
    /\ blPc' = "exited"

FinishExitZero(l, d) ==
    /\ blReport' = IF l THEN <<writeReport("listed", "MULTIPLE", Join(d, <<"; ">>))>>
                   ELSE <<writeReport("clean", "", CleanDetails)>>
    /\ blExit' = <<0>>
    /\ blPc' = "exited"

\* The end of checkAll: the report and the exit code, from the final values
\* of listed and details.
Finish(l, d) ==
    /\ blReport' = IF l THEN <<writeReport("listed", "MULTIPLE", Join(d, <<"; ">>))>>
                   ELSE <<writeReport("clean", "", CleanDetails)>>
    /\ blExit' = IF l THEN <<1>> ELSE <<0>>
    /\ blPc' = "exited"

Range(s) == {s[i] : i \in 1..Len(s)}

\* The query the checker is suspended on: the last one issued.
Awaited == blQueried[Len(blQueried)]

\* A step of checkAll: the awaited query (if any) has settled and leaves
\* the queries in flight; the calls of resolve/resolve4 made by the step
\* (qs) go in flight.
SettleAndIssue(qs) ==
    /\ blInflight' = (blInflight \ {q \in blInflight : q = Awaited}) \cup Range(qs)
    /\ blQueried' = blQueried \o qs

Reply(name, reply) ==
    blReplies' = Append(blReplies, [source |-> name, reply |-> reply])

\* What the command line can hold: nothing, a bare domain, a URL.
BLInputs == { <<"example", ".", "com">>,
              <<"https", ":", "/", "/", "example", ".", "com", "/", "p">> }

BLInit ==
    /\ blArgs \in {<<>>} \cup {<<i>> : i \in BLInputs}
    /\ blPc = "start"
    /\ blDomain = <<>>
    /\ blIdx = 0
    /\ blIp = <<>>
    /\ results = <<>>
    /\ listed = FALSE
    /\ details = <<>>
    /\ blInflight = {}
    /\ blQueried = <<>>
    /\ blReplies = <<>>
    /\ blConsole = <<>>
    /\ blReport = <<>>
    /\ blExit = <<>>

\* The command line naming a host of the machine itself.
BLLocalInputs == { <<"http", ":", "/", "/", "localhost", "/">> }

BLInitLocal ==
    /\ blArgs \in {<<>>} \cup {<<i>> : i \in BLLocalInputs}
    /\ blPc = "start"
    /\ blDomain = <<>>
    /\ blIdx = 0
    /\ blIp = <<>>
    /\ results = <<>>
    /\ listed = FALSE
    /\ details = <<>>
    /\ blInflight = {}
    /\ blQueried = <<>>
    /\ blReplies = <<>>
    /\ blConsole = <<>>
    /\ blReport = <<>>
    /\ blExit = <<>>

\* Targets on which new url.URL throws: a scheme with nothing behind it.
BLMalformedInputs == { <<"http", ":", "/", "/">>, <<"/", "/">> }

BLInitMalformed ==
    /\ blArgs \in {<<i>> : i \in BLMalformedInputs}
    /\ blPc = "start"
    /\ blDomain = <<>>
    /\ blIdx = 0
    /\ blIp = <<>>
    /\ results = <<>>
    /\ listed = FALSE
    /\ details = <<>>
    /\ blInflight = {}
    /\ blQueried = <<>>
    /\ blReplies = <<>>
    /\ blConsole = <<>>
    /\ blReport = <<>>
    /\ blExit = <<>>

\* if (args.length < 1) { console.error(usage); process.exit(1); }
BLUsage ==
    /\ blPc = "start"
    /\ Len(blArgs) < 1
    /\ blPc' = "exited"
    /\ blExit' = <<1>>
    /\ blConsole' = Append(blConsole, [kind |-> "usage", source |-> "", codes |-> <<>>])
    /\ UNCHANGED <<blArgs, blDomain, blIdx, blIp, results, listed, details,
                   blInflight, blQueried, blReplies, blReport>>
    /\ UNCHANGED <<ddVars, crVars, smVars, sbVars, rpVars, nmVars, plVars>>

\* Variant of BLStart: every domain list's query is issued at once.
BLStartFanOut ==
    /\ blPc = "start"
    /\ Len(blArgs) >= 1
    /\ LET d == extractDomain(blArgs[1], blArgs[1])
       IN  /\ blDomain' = d
           /\ SettleAndIssue([k \in 1..Len(BLACKLISTS) |-> QueryName(d, BLACKLISTS[k])])
    /\ blIdx' = 1
    /\ blPc' = "await domain list"
    /\ results' = <<>>
    /\ listed' = FALSE
    /\ details' = <<>>
    /\ UNCHANGED <<blArgs, blIp, blReplies, blConsole, blReport, blExit>>
    /\ UNCHANGED <<ddVars, crVars, smVars, sbVars, rpVars, nmVars, plVars>>

\* The script's top level and checkAll up to its first await.
BLStart ==
    /\ blPc = "start"
    /\ Len(blArgs) >= 1
    /\ LET d == extractDomain(blArgs[1], blArgs[1])
       IN  /\ blDomain' = d
           /\ SettleAndIssue(<<QueryName(d, BLACKLISTS[1])>>)
    /\ blIdx' = 1
    /\ blPc' = "await domain list"
    /\ results' = <<>>
    /\ listed' = FALSE
    /\ details' = <<>>
    /\ UNCHANGED <<blArgs, blIp, blReplies, blConsole, blReport, blExit>>
    /\ UNCHANGED <<ddVars, crVars, smVars, sbVars, rpVars, nmVars, plVars>>

\* One iteration of the domain loop from the point where its awaited query
\* settles (the try block and its catch), then the next iteration's query,
\* or after the last list resolve4(domain).
DomainIteration(reply) ==
    /\ LET list == BLACKLISTS[blIdx]
           after == AfterCheck(list, reply, <<>>)
       IN  /\ results' = after.results
           /\ details' = after.details
           /\ listed' = after.listed
           /\ blConsole' = after.console
           /\ Reply(list.name, reply)
    /\ IF blIdx < Len(BLACKLISTS)
       THEN /\ blIdx' = blIdx + 1
            /\ SettleAndIssue(<<QueryName(blDomain, BLACKLISTS[blIdx + 1])>>)
            /\ blPc' = "await domain list"
       ELSE /\ blIdx' = 0
            /\ SettleAndIssue(<<blDomain>>)
            /\ blPc' = "await resolve4"
    /\ UNCHANGED <<blArgs, blDomain, blIp, blReport, blExit>>

\* Variant of BLDomainSettled: no catch inside the loop, so a resolver error
\* leaves checkAll as an unhandled rejection (exit code 1, no report).
BLDomainSettledAbort(reply) ==
    /\ blPc = "await domain list"
    /\ IF checkDNS(reply).threw
       THEN /\ Reply(BLACKLISTS[blIdx].name, reply)
            /\ SettleAndIssue(<<>>)
            /\ blPc' = "exited"
            /\ blExit' = <<1>>
            /\ UNCHANGED <<blArgs, blDomain, blIdx, blIp, results, listed, details,
                           blConsole, blReport>>
       ELSE DomainIteration(reply)
    /\ UNCHANGED <<ddVars, crVars, smVars, sbVars, rpVars, nmVars, plVars>>

BLDomainSettled(reply) ==
    /\ blPc = "await domain list"
    /\ DomainIteration(reply)
    /\ UNCHANGED <<ddVars, crVars, smVars, sbVars, rpVars, nmVars, plVars>>

\* resolve4(domain) gave an address: ip = ips[0], and the IP loop runs to
\* its first await.
IpLoopStart(reply) ==
    /\ blIp' = reply.addresses[1]
    /\ blIdx' = 1
    /\ SettleAndIssue(<<QueryName(reverseIP(reply.addresses[1]), IP_BLACKLISTS[1])>>)
    /\ blPc' = "await ip list"
    /\ UNCHANGED <<blConsole, blReport, blExit>>

\* resolve4(domain) gave no address, or threw into the catch that warns:
\* the IP lists are skipped and checkAll ends.
IpListsSkipped(reply) ==
    /\ blConsole' =
          IF reply.ok THEN blConsole
          ELSE Append(blConsole, [kind |-> "WARN skipping IP blacklists",
                                  source |-> "", codes |-> <<>>])
    /\ SettleAndIssue(<<>>)
    /\ Finish(listed, details)
    /\ UNCHANGED <<blIp, blIdx>>

\* Variant of BLResolve4Settled: a failed resolve4 is an error of the run
\* (exit code 1, no report).
BLResolve4SettledFatal(reply) ==
    /\ blPc = "await resolve4"
    /\ Reply("resolve4", reply)
    /\ IF reply.ok /\ Len(reply.addresses) > 0
       THEN IpLoopStart(reply)
       ELSE /\ SettleAndIssue(<<>>)
            /\ blPc' = "exited"
            /\ blExit' = <<1>>
            /\ UNCHANGED <<blIp, blIdx, blConsole, blReport>>
    /\ UNCHANGED <<blArgs, blDomain, results, listed, details>>
    /\ UNCHANGED <<ddVars, crVars, smVars, sbVars, rpVars, nmVars, plVars>>

\* resolve4(domain) settles.
BLResolve4Settled(reply) ==
    /\ blPc = "await resolve4"
    /\ Reply("resolve4", reply)
    /\ IF reply.ok /\ Len(reply.addresses) > 0
       THEN IpLoopStart(reply)
       ELSE IpListsSkipped(reply)
    /\ UNCHANGED <<blArgs, blDomain, results, listed, details>>
    /\ UNCHANGED <<ddVars, crVars, smVars, sbVars, rpVars, nmVars, plVars>>

\* An awaited IP-list query settles: the rest of that iteration, then the
\* next IP list's query, or after the last one the report and the exit.
BLIpSettled(reply) ==
    /\ blPc = "await ip list"
    /\ LET list == IP_BLACKLISTS[blIdx]
           after == AfterCheck(list, reply, blIp)
       IN  /\ results' = after.results
           /\ details' = after.details
           /\ listed' = after.listed
           /\ blConsole' = after.console
           /\ Reply(list.name, reply)
           /\ IF blIdx < Len(IP_BLACKLISTS)
              THEN /\ blIdx' = blIdx + 1
                   /\ SettleAndIssue(<<QueryName(reverseIP(blIp), IP_BLACKLISTS[blIdx + 1])>>)
                   /\ UNCHANGED <<blPc, blReport, blExit>>
              ELSE /\ SettleAndIssue(<<>>)
                   /\ Finish(after.listed, after.details)
                   /\ UNCHANGED blIdx
    /\ UNCHANGED <<blArgs, blDomain, blIp>>
    /\ UNCHANGED <<ddVars, crVars, smVars, sbVars, rpVars, nmVars, plVars>>

NextBL ==
    \/ BLUsage
    \/ BLStart
    \/ \E reply \in DnsReplies : BLDomainSettled(reply)
    \/ \E reply \in Resolve4Replies : BLResolve4Settled(reply)
    \/ \E reply \in DnsReplies : BLIpSettled(reply)

(***************************************************************************)
(* check-dead-domains.js                                                   *)
(***************************************************************************)
Null == <<>>

\* extractDomain of the liveness checker: null when the URL does not parse.
extractDomainDD(urlString) ==
    LET u == IF StartsWith(urlString, <<"/", "/">>)
             THEN <<"https", ":">> \o urlString
             ELSE urlString
        hostname == URLHostname(u)
    IN  IF hostname = Invalid THEN Null ELSE hostname

\* Variant of MapHas that never finds the key: every call adds an entry.
MapHasNever(m, k) == FALSE

\* The Map as a sequence of entries in insertion order, each Set as a
\* sequence without repetition in insertion order.
MapHas(m, k) == \E i \in 1..Len(m) : m[i].domain = k

\* Variant of MapGet: only the source that created the entry.
MapGetFirst(m, k) == <<m[CHOOSE i \in 1..Len(m) : m[i].domain = k].sources[1]>>

MapGet(m, k) == m[CHOOSE i \in 1..Len(m) : m[i].domain = k].sources

\* Variant of SetAdd: an array push.
SetAddPush(set, x) == Append(set, x)

SetAdd(set, x) == IF ArrIncludes(set, x) THEN set ELSE Append(set, x)

\* Variant of addFinding without the early return on a null domain.
addFindingAnyDomain(m, foundUrl, source) ==
    LET domain == extractDomainDD(foundUrl)
        m1 == IF ~MapHas(m, domain)
              THEN Append(m, [domain |-> domain, sources |-> <<>>])
              ELSE m
    IN  [i \in 1..Len(m1) |->
           IF m1[i].domain = domain
           THEN [m1[i] EXCEPT !.sources = SetAdd(@, source)]
           ELSE m1[i]]

addFinding(m, foundUrl, source) ==
    LET domain == extractDomainDD(foundUrl)
    IN  IF domain = Null THEN m
        ELSE LET m1 == IF ~MapHas(m, domain)
                       THEN Append(m, [domain |-> domain, sources |-> <<>>])
                       ELSE m
             IN  [i \in 1..Len(m1) |->
                    IF m1[i].domain = domain
                    THEN [m1[i] EXCEPT !.sources = SetAdd(@, source)]
                    ELSE m1[i]]

\* Filter out common false positives or localhosts.
ToCheck(d) ==
    /\ ~Includes(d, <<"localhost">>)
    /\ ~Includes(d, <<"127", ".", "0", ".", "0", ".", "1">>)
    /\ Includes(d, <<".">>)

\* What the crawl can have recorded: URLs and the pages they were found on.
MaxRefs == 3

DDUrls == { <<"https", ":", "/", "/", "example", ".", "com", "/", "a">>,
            <<"/", "/", "cdn", ".", "net", "/", "x">>,
            <<"http", ":", "/", "/", "localhost", "/">>,
            <<"http", ":", "/", "/", "127", ".", "0", ".", "0", ".", "1", "/">>,
            <<"not", " ", "a", " ", "url">> }

DDPages == {"https://example.com/", "https://example.com/about"}

\* The files of js_assets (getAllFiles), each with its name and the words of
\* its text; and what downloaded_scripts.json can hold.
AppJs == <<"17-4-app", ".", "js">>

DDFiles ==
    { [name |-> AppJs,
       content |-> << <<"https", ":", "/", "/", "cdn", ".", "net", "/", "lib">>,
                      <<"/", "/", "example", ".", "com", "/", "rel">> >>],
      [name |-> <<"17-9-loader">>,
       content |-> << <<"https", ":", "/", "/", "cdn", ".", "net", "/", "lib">> >>] }

DDScriptMetadata ==
    { <<>>,
      << [filename |-> AppJs,
          originalUrl |-> <<"https://example.com/static/app.js">>,
          foundOnPage |-> <<"https://example.com/">>] >> }

\* file.endsWith('.js') || file.endsWith('.json') || file.endsWith('.map')
EndsWith(s, p) == Len(s) >= Len(p) /\ SubSeq(s, Len(s) - Len(p) + 1, Len(s)) = p

ScannedExtension(file) ==
    \/ EndsWith(file, <<".", "js">>)
    \/ EndsWith(file, <<".", "json">>)
    \/ EndsWith(file, <<".", "map">>)

\* urlRegex on one word of text: http or https, "//", a host that ends in a
\* dot and at least two letters, then an optional path.
Tlds == {"com", "net", "org"}

UrlShaped(word) ==
    /\ StartsWith(word, HTTP) \/ StartsWith(word, HTTPS)
    /\ LET host == Split(SubSeq(word, 5, Len(word)), "/")[1]
       IN  /\ Len(host) >= 3
           /\ host[Len(host) - 1] = "."
           /\ host[Len(host)] \in Tlds

\* The err of the dns.resolve callback: "" for no error, else err.code.
DDErrCodes == {"", "ENOTFOUND", "ETIMEOUT", "EREFUSED"}

DDInit ==
    /\ ddPc = "read"
    /\ ddRefs = 0
    /\ ddCalls = {}
    /\ scriptMap = <<>>
    /\ ddScanned = {}
    /\ domainSources = <<>>
    /\ domainsToCheck = <<>>
    /\ ddPending = {}
    /\ ddLookups = <<>>
    /\ deadDomains = <<>>
    /\ ddFindings = <<>>
    /\ ddExit = <<>>

\* item.urls.forEach(u => addFinding(u, `Found on Page: ${pageUrl}`))
DDReadRef(u, pageUrl) ==
    /\ ddPc = "read"
    /\ ddRefs < MaxRefs
    /\ ddRefs' = ddRefs + 1
    /\ domainSources' = addFinding(domainSources, u, <<"Found on Page: ", pageUrl>>)
    /\ ddCalls' = ddCalls \cup {[url |-> u, source |-> <<"Found on Page: ", pageUrl>>]}
    /\ UNCHANGED <<ddPc, scriptMap, ddScanned, domainsToCheck, ddPending, ddLookups,
                   deadDomains, ddFindings, ddExit>>
    /\ UNCHANGED <<blVars, crVars, smVars, sbVars, rpVars, nmVars, plVars>>

\* 2. Load Script Metadata: scripts.forEach(s => scriptMap.set(s.filename, s)).
DDLoadScriptMap(scripts) ==
    /\ ddPc = "read"
    /\ scriptMap' = scripts
    /\ ddPc' = "scan"
    /\ UNCHANGED <<ddRefs, ddCalls, ddScanned, domainSources, domainsToCheck,
                   ddPending, ddLookups, deadDomains, ddFindings, ddExit>>
    /\ UNCHANGED <<blVars, crVars, smVars, sbVars, rpVars, nmVars, plVars>>

\* scriptMap.get(filename): the last entry set under that name, if any.
ScriptInfo(map, filename) ==
    LET hits == {i \in 1..Len(map) : map[i].filename = filename}
    IN  IF hits = {} THEN <<>>
        ELSE <<map[CHOOSE i \in hits : \A j \in hits : j <= i]>>

\* Variant of sourceDescription that never consults the script metadata.
sourceDescriptionUnknown(map, filename) ==
    <<"Found in Script File: ">> \o filename \o <<" (source unknown)">>

sourceDescription(map, filename) ==
    LET scriptInfo == ScriptInfo(map, filename)
    IN  IF scriptInfo # <<>>
        THEN <<"Found in Script: ">> \o scriptInfo[1].originalUrl \o <<" (loaded by ">>
                \o scriptInfo[1].foundOnPage \o <<")">>
        ELSE <<"Found in Script File: ">> \o filename \o <<" (source unknown)">>

RECURSIVE addFindings(_, _, _)
addFindings(m, matches, source) ==
    IF matches = <<>> THEN m
    ELSE addFindings(addFinding(m, Head(matches), source), Tail(matches), source)

\* 3. Scan Downloaded JS assets: one iteration of the loop over the files.
DDScanFile(file) ==
    /\ ddPc = "scan"
    /\ file \notin ddScanned
    /\ ddScanned' = ddScanned \cup {file}
    /\ IF ScannedExtension(file.name)
       THEN LET matches == SelectSeq(file.content, UrlShaped)
                source == sourceDescription(scriptMap, file.name)
            IN  /\ domainSources' = addFindings(domainSources, matches, source)
                /\ ddCalls' = ddCalls \cup
                      {[url |-> matches[i], source |-> source] : i \in 1..Len(matches)}
       ELSE UNCHANGED <<domainSources, ddCalls>>
    /\ UNCHANGED <<ddPc, ddRefs, scriptMap, domainsToCheck, ddPending, ddLookups,
                   deadDomains, ddFindings, ddExit>>
    /\ UNCHANGED <<blVars, crVars, smVars, sbVars, rpVars, nmVars, plVars>>

\* 4. Checking Domains: the filter, then one dns.resolve per domain, all
\* issued by the map before run() suspends on Promise.all.
DDStartChecks ==
    /\ ddPc = "scan"
    /\ LET allDomains == [i \in 1..Len(domainSources) |-> domainSources[i].domain]
           toCheck == SelectSeq(allDomains, ToCheck)
       IN  /\ domainsToCheck' = toCheck
           /\ ddPending' = Range(toCheck)
    /\ ddPc' = "await all"
    /\ UNCHANGED <<ddRefs, ddCalls, scriptMap, ddScanned, domainSources, ddLookups,
                   deadDomains, ddFindings, ddExit>>
    /\ UNCHANGED <<blVars, crVars, smVars, sbVars, rpVars, nmVars, plVars>>

\* Variant of IsDead: any resolver error counts as dead.
IsDeadAnyError(code) == code # ""

\* if (err) { if (err.code === 'ENOTFOUND') { deadDomains.push(...) } }
IsDead(code) == code # "" /\ code = "ENOTFOUND"

\* The callback of dns.resolve(domain, (err) => ...), then resolve().
DDCallback(domain, code) ==
    /\ ddPc = "await all"
    /\ domain \in ddPending
    /\ ddPending' = ddPending \ {domain}
    /\ ddLookups' = Append(ddLookups, [domain |-> domain, code |-> code])
    /\ deadDomains' =
          IF IsDead(code)
          THEN Append(deadDomains, [domain |-> domain, error |-> code,
                                    sources |-> MapGet(domainSources, domain)])
          ELSE deadDomains
    /\ UNCHANGED <<ddPc, ddRefs, ddCalls, scriptMap, ddScanned, domainSources,
                   domainsToCheck, ddFindings, ddExit>>
    /\ UNCHANGED <<blVars, crVars, smVars, sbVars, rpVars, nmVars, plVars>>

\* Variant of DDFinish for promises that reject on a resolver error:
\* Promise.all settles with the first failure.
DDFinishFirstFailure ==
    /\ ddPc = "await all"
    /\ ddPending = {} \/ \E i \in 1..Len(ddLookups) : ddLookups[i].code # ""
    /\ ddFindings' = <<[deadDomains |-> deadDomains,
                         totalChecked |-> Len(domainsToCheck)]>>
    /\ ddExit' = IF Len(deadDomains) > 0 THEN <<1>> ELSE <<0>>
    /\ ddPc' = "exited"
    /\ UNCHANGED <<ddRefs, ddCalls, scriptMap, ddScanned, domainSources,
                   domainsToCheck, ddPending, ddLookups, deadDomains>>
    /\ UNCHANGED <<blVars, crVars, smVars, sbVars, rpVars, nmVars, plVars>>

\* Variant of DDFinish that fails the run on any resolver error.
DDFinishExitOnError ==
    /\ ddPc = "await all"
    /\ ddPending = {}
    /\ ddFindings' = <<[deadDomains |-> deadDomains,
                         totalChecked |-> Len(domainsToCheck)]>>
    /\ ddExit' = IF \E i \in 1..Len(ddLookups) : ddLookups[i].code # ""
                 THEN <<1>> ELSE <<0>>
    /\ ddPc' = "exited"
    /\ UNCHANGED <<ddRefs, ddCalls, scriptMap, ddScanned, domainSources,
                   domainsToCheck, ddPending, ddLookups, deadDomains>>
    /\ UNCHANGED <<blVars, crVars, smVars, sbVars, rpVars, nmVars, plVars>>

\* Promise.all has resolved: the report is written and the process exits.
DDFinish ==
    /\ ddPc = "await all"
    /\ ddPending = {}
    /\ ddFindings' = <<[deadDomains |-> deadDomains,
                         totalChecked |-> Len(domainsToCheck)]>>
    /\ ddExit' = IF Len(deadDomains) > 0 THEN <<1>> ELSE <<0>>
    /\ ddPc' = "exited"
    /\ UNCHANGED <<ddRefs, ddCalls, scriptMap, ddScanned, domainSources,
                   domainsToCheck, ddPending, ddLookups, deadDomains>>
    /\ UNCHANGED <<blVars, crVars, smVars, sbVars, rpVars, nmVars, plVars>>

NextDD ==
    \/ \E u \in DDUrls, pageUrl \in DDPages : DDReadRef(u, pageUrl)
    \/ \E scripts \in DDScriptMetadata : DDLoadScriptMap(scripts)
    \/ \E file \in DDFiles : DDScanFile(file)
    \/ DDStartChecks
    \/ \E domain \in ddPending, code \in DDErrCodes : DDCallback(domain, code)
    \/ DDFinish

(***************************************************************************)
(* download-assets.js                                                      *)
(***************************************************************************)
\* const maxPagesToVisit = 1500, scaled to the size of the sitemaps below.
maxPagesToVisit == 3

\* The site: its seed URL, the pages a sitemap can name (one of them not a
\* URL), and what each page holds.
Seed == <<"https", ":", "/", "/", "a", ".", "com">>

BlogPage == Seed \o <<"/", "blog", "/", "x">>

KeptPage == Seed \o <<"/", "blog", "/", "keep", "/", "y">>

NotAUrl == <<"not", " ", "a", " ", "url">>

AppScript == Seed \o <<"/", "app", ".", "js">>

CdnScript == <<"https", ":", "/", "/", "cdn", ".", "b", ".", "com", "/", "app", ".", "js">>

TagScript ==
    <<"https", ":", "/", "/", "www", ".", "googletagmanager", ".", "com", "/", "gtm", ".", "js">>

CRLocs == {Seed, BlogPage, KeptPage, NotAUrl}

MaxSitemap == 3

\* What parseSitemap can resolve to.
CRSitemaps == UNION {[1..n -> CRLocs] : n \in 0..MaxSitemap}

\* page.evaluate on a loaded page: the URLs of its content, its script[src].
CRSite(pageUrl) ==
    IF pageUrl = Seed
    THEN [urls |-> <<"https://a.com/blog/x", "https://old.example.org/">>,
          scripts |-> <<AppScript, TagScript, AppScript>>]
    ELSE IF pageUrl = BlogPage
    THEN [urls |-> <<"https://a.com/">>, scripts |-> <<AppScript, CdnScript>>]
    ELSE [urls |-> <<>>, scripts |-> <<CdnScript>>]

\* (process.env.X || '').split(',').map(trim).filter(p => p.length > 0), on
\* the entries between the commas.
ParseList(entries) == SelectSeq(entries, LAMBDA e : Len(e) > 0)

DefaultSkipDomains ==
    << <<"googleads", ".", "g", ".", "doubleclick", ".", "net">>,
       <<"g", ".", "doubleclick", ".", "net">>,
       <<"doubleclick", ".", "net">>,
       <<"googlesyndication", ".", "com">>,
       <<"googletagmanager", ".", "com">>,
       <<"google-analytics", ".", "com">>,
       <<"analytics", ".", "google", ".", "com">>,
       <<"fonts", ".", "googleapis", ".", "com">>,
       <<"fonts", ".", "gstatic", ".", "com">>,
       <<"connect", ".", "facebook", ".", "net">>,
       <<"platform", ".", "twitter", ".", "com">>,
       <<"twitter", ".", "com">>,
       <<"x", ".", "com">>,
       <<"platform", ".", "x", ".", "com">>,
       <<"youtube", ".", "com">>,
       <<"s", ".", "ytimg", ".", "com">>,
       <<"ajax", ".", "googleapis", ".", "com">>,
       <<"cdnjs", ".", "cloudflare", ".", "com">>,
       <<"unpkg", ".", "com">>,
       <<"code", ".", "jquery", ".", "com">>,
       <<"cdn", ".", "jsdelivr", ".", "net">>,
       <<"www", ".", "google", ".", "com">>,
       <<"www", ".", "gstatic", ".", "com">> >>

\* process.env.SKIP_SCRIPT_DOMAINS || [defaults].join(',')
scriptSkipDomains(env) ==
    ParseList(IF env.SKIP_SCRIPT_DOMAINS = <<>> THEN DefaultSkipDomains
              ELSE env.SKIP_SCRIPT_DOMAINS)

skipPrefixes(env) == ParseList(env.SKIP_URL_PREFIXES)

includePrefixes(env) == ParseList(env.INCLUDE_URL_PREFIXES)

\* The environments of this model: nothing set; a skip prefix; a skip and an
\* include prefix; an include prefix alone and a skip list of two domains.
CREnvs ==
    << [SKIP_URL_PREFIXES |-> <<>>, INCLUDE_URL_PREFIXES |-> <<>>,
        SKIP_SCRIPT_DOMAINS |-> <<>>],
       [SKIP_URL_PREFIXES |-> << <<"/", "blog">>, <<>> >>, INCLUDE_URL_PREFIXES |-> <<>>,
        SKIP_SCRIPT_DOMAINS |-> <<>>],
       [SKIP_URL_PREFIXES |-> << <<"/", "blog">> >>,
        INCLUDE_URL_PREFIXES |-> << <<"/", "blog", "/", "keep">> >>,
        SKIP_SCRIPT_DOMAINS |-> <<>>],
       [SKIP_URL_PREFIXES |-> <<>>,
        INCLUDE_URL_PREFIXES |-> << <<"/", "blog", "/", "keep">> >>,
        SKIP_SCRIPT_DOMAINS |-> << <<"b", ".", "com">>, <<"a", ".", "com">> >>] >>

\* new URL(u).pathname, for the URLs of this model (no query, no fragment).
URLPathname(u) ==
    IF URLHostname(u) = Invalid THEN Invalid
    ELSE LET rest == SubSeq(u, 5, Len(u))
             slashes == {i \in 1..Len(rest) : rest[i] = "/"}
         IN  IF slashes = {} THEN <<"/">>
             ELSE SubSeq(rest, CHOOSE i \in slashes : \A j \in slashes : i <= j, Len(rest))

\* path.basename(pathname) || 'script.js'
basename(pathname) ==
    LET parts == Split(pathname, "/")
        last == parts[Len(parts)]
    IN  IF last = <<>> THEN <<"script", ".", "js">> ELSE last

\* `${Date.now()}-${Math.floor(Math.random() * 1000)}-${fileName}`
uniqueName(now, rnd, fileName) == <<ToString(now), "-", ToString(rnd), "-">> \o fileName

\* What Date.now() and Math.floor(Math.random() * 1000) can give.
CRTimes == {0, 1}

CRRands == {0, 1}

\* Variant of isScriptDomainSkipped that matches the hostname exactly only.
isScriptDomainSkippedExact(skipDomains, scriptUrl) ==
    IF Len(skipDomains) = 0 THEN FALSE
    ELSE LET hostname == URLHostname(scriptUrl)
         IN  IF hostname = Invalid THEN FALSE
             ELSE \E k \in 1..Len(skipDomains) : hostname = skipDomains[k]

isScriptDomainSkipped(skipDomains, scriptUrl) ==
    IF Len(skipDomains) = 0 THEN FALSE
    ELSE LET hostname == URLHostname(scriptUrl)
         IN  IF hostname = Invalid THEN FALSE
             ELSE \E k \in 1..Len(skipDomains) :
                     \/ hostname = skipDomains[k]
                     \/ EndsWith(hostname, <<".">> \o skipDomains[k])

\* [...new Set(list)]: first occurrences, in order.
\* Variant of Dedup: of several equal entries the last one is kept.
DedupKeepLast(list) ==
    LET keep == SelectSeq([i \in 1..Len(list) |-> i],
                          LAMBDA i : \A j \in (i + 1)..Len(list) : list[j] # list[i])
    IN  [k \in 1..Len(keep) |-> list[keep[k]]]

RECURSIVE Dedup(_)
Dedup(list) ==
    IF list = <<>> THEN <<>>
    ELSE LET front == Dedup(SubSeq(list, 1, Len(list) - 1))
         IN  IF ArrIncludes(front, list[Len(list)]) THEN front
             ELSE Append(front, list[Len(list)])

\* The filter callback of "Filter out skipped prefixes".
shouldSkip(url, skip, include) ==
    LET urlPath == URLPathname(url)
        matchesSkip == \E k \in 1..Len(skip) : StartsWith(urlPath, skip[k])
        matchesInclude == \E k \in 1..Len(include) : StartsWith(urlPath, include[k])
    IN  matchesSkip /\ ~matchesInclude

Line(kind, url) == [kind |-> kind, url |-> url]

\* console.log(`Skipping ${url} (matches prefix)`) of the filter callback.
SkipLines(pages, skip, include) ==
    LET skipped == SelectSeq(pages, LAMBDA u : shouldSkip(u, skip, include))
    IN  [i \in 1..Len(skipped) |-> Line("skip page", skipped[i])]

CRInit ==
    /\ crArgs \in {<<>>, <<Seed>>}
    /\ crEnv \in Range(CREnvs)
    /\ crPc = "start"
    /\ sitemapPages = <<>>
    /\ pagesToVisit = <<>>
    /\ crCandidates = <<>>
    /\ crIdx = 0
    /\ seenPages = {}
    /\ seenScripts = {}
    /\ allFoundUrls = <<>>
    /\ downloadedScriptsData = <<>>
    /\ downloadedScriptsCount = 0
    /\ crScripts = <<>>
    /\ crSIdx = 0
    /\ crInflight = <<>>
    /\ crClock = 0
    /\ jsAssets = {}
    /\ crConsole = <<>>
    /\ foundUrlsFile = <<>>
    /\ downloadedScriptsFile = <<>>
    /\ scanMetadata = <<>>
    /\ crExit = <<>>

\* if (!targetUrl) { console.error(...); process.exit(1); }
CRUsage ==
    /\ crPc = "start"
    /\ crArgs = <<>>
    /\ crPc' = "exited"
    /\ crExit' = <<1>>
    /\ crConsole' = Append(crConsole, Line("usage", <<>>))
    /\ UNCHANGED <<crArgs, crEnv, sitemapPages, crCandidates, pagesToVisit, crIdx, seenPages, seenScripts,
                   allFoundUrls, downloadedScriptsData, downloadedScriptsCount,
                   crScripts, crSIdx, crInflight, crClock, jsAssets, crFiles>>
    /\ UNCHANGED <<blVars, ddVars, smVars, sbVars, rpVars, nmVars, plVars>>

\* The browser is launched and parseSitemap is awaited.
CRStart ==
    /\ crPc = "start"
    /\ crArgs # <<>>
    /\ pagesToVisit' = <<crArgs[1]>>
    /\ crPc' = "await sitemap"
    /\ UNCHANGED <<crArgs, crEnv, sitemapPages, crCandidates, crIdx, seenPages, seenScripts, allFoundUrls,
                   downloadedScriptsData, downloadedScriptsCount, crScripts,
                   crSIdx, crInflight, crClock, jsAssets, crConsole, crFiles, crExit>>
    /\ UNCHANGED <<blVars, ddVars, smVars, sbVars, rpVars, nmVars, plVars>>

\* The pages of pages from position i on that the loop does not skip.
Unvisited(pages, i, seen) == {j \in i..Len(pages) : pages[j] \notin seen}

\* The page loop from position i: the next page not yet seen is marked and
\* page.goto is awaited; after the last page the data files are written and
\* browser.close() is awaited.  The caller has set the lists and the count.
Advance(pages, i, console) ==
    LET todo == Unvisited(pages, i, seenPages)
    IN  IF todo = {}
        THEN /\ crIdx' = Len(pages) + 1
             /\ seenPages' = seenPages
             /\ crConsole' = Append(console, Line("complete", <<>>))
             /\ foundUrlsFile' = <<allFoundUrls'>>
             /\ downloadedScriptsFile' = <<downloadedScriptsData'>>
             /\ scanMetadata' = <<[scannedUrlCount |-> Cardinality(seenPages),
                                   downloadedScriptCount |-> downloadedScriptsCount']>>
             /\ crPc' = "await close"
        ELSE LET j == CHOOSE k \in todo : \A l \in todo : k <= l
             IN  /\ crIdx' = j
                 /\ seenPages' = seenPages \cup {pages[j]}
                 /\ crConsole' = Append(console, Line("visit", pages[j]))
                 /\ crPc' = "await goto"
                 /\ UNCHANGED crFiles

\* parseSitemap has resolved: the visit list is built, limited and filtered,
\* and the page loop starts.  new URL(url) in the filter throws on a list
\* entry that is no URL, outside any try: the run ends there.
CRSitemapSettled(resolved) ==
    /\ crPc = "await sitemap"
    /\ sitemapPages' = resolved
    /\ LET merged == IF Len(resolved) > 0
                     THEN Dedup(pagesToVisit \o resolved)
                     ELSE pagesToVisit
           limited == IF Len(merged) > maxPagesToVisit
                      THEN SubSeq(merged, 1, maxPagesToVisit)
                      ELSE merged
           skip == skipPrefixes(crEnv)
           include == includePrefixes(crEnv)
           found == Append(crConsole, Line("sitemap pages", <<ToString(Len(resolved))>>))
           console == IF Len(merged) > maxPagesToVisit
                      THEN Append(found, Line("limit", <<ToString(maxPagesToVisit)>>))
                      ELSE found
           bad == {k \in 1..Len(limited) : URLPathname(limited[k]) = Invalid}
       IN  /\ crCandidates' = limited
           /\ IF Len(skip) > 0 /\ bad # {}
              THEN LET first == CHOOSE k \in bad : \A l \in bad : k <= l
                   IN  /\ pagesToVisit' = limited
                       /\ crPc' = "exited"
                       /\ crExit' = <<1>>
                       /\ crConsole' =
                             Append(console \o SkipLines(SubSeq(limited, 1, first - 1),
                                                         skip, include),
                                    Line("unhandled rejection", <<>>))
                       /\ UNCHANGED <<crIdx, seenPages, allFoundUrls,
                                      downloadedScriptsData, downloadedScriptsCount,
                                      crFiles>>
              ELSE LET kept == SelectSeq(limited, LAMBDA u : ~shouldSkip(u, skip, include))
                   IN  /\ pagesToVisit' = IF Len(skip) > 0 THEN kept ELSE limited
                       /\ UNCHANGED <<allFoundUrls, downloadedScriptsData,
                                      downloadedScriptsCount, crExit>>
                       /\ Advance(pagesToVisit', 1,
                                  IF Len(skip) > 0
                                  THEN Append(console \o SkipLines(limited, skip, include),
                                              Line("filtered out",
                                                   <<ToString(Len(limited) - Len(kept))>>))
                                  ELSE console)
    /\ UNCHANGED <<crArgs, crEnv, seenScripts, crScripts, crSIdx, crInflight, crClock,
                   jsAssets>>
    /\ UNCHANGED <<blVars, ddVars, smVars, sbVars, rpVars, nmVars, plVars>>

\* Variant of CRGotoSettled that navigates again when page.goto has failed.
CRGotoSettledRetry(ok) ==
    /\ crPc = "await goto"
    /\ ok => URLHostname(pagesToVisit[crIdx]) # Invalid
    /\ IF ok
       THEN /\ crPc' = "await urls"
            /\ UNCHANGED crConsole
       ELSE /\ crPc' = "await goto"
            /\ crConsole' = Append(Append(crConsole, Line("page error", pagesToVisit[crIdx])),
                                   Line("visit", pagesToVisit[crIdx]))
    /\ UNCHANGED <<crIdx, seenPages, crFiles, allFoundUrls, downloadedScriptsData,
                   downloadedScriptsCount>>
    /\ UNCHANGED <<crArgs, crEnv, sitemapPages, crCandidates, pagesToVisit, seenScripts, crScripts, crSIdx,
                   crInflight, crClock, jsAssets, crExit>>
    /\ UNCHANGED <<blVars, ddVars, smVars, sbVars, rpVars, nmVars, plVars>>

\* Variant of CRGotoSettled with no try around the visit: a failed
\* navigation ends the run.
CRGotoSettledAbort(ok) ==
    /\ crPc = "await goto"
    /\ ok => URLHostname(pagesToVisit[crIdx]) # Invalid
    /\ IF ok
       THEN /\ crPc' = "await urls"
            /\ UNCHANGED <<crConsole, crExit>>
       ELSE /\ crPc' = "exited"
            /\ crExit' = <<1>>
            /\ crConsole' = Append(crConsole, Line("unhandled rejection", <<>>))
    /\ UNCHANGED <<crIdx, seenPages, crFiles, allFoundUrls, downloadedScriptsData,
                   downloadedScriptsCount>>
    /\ UNCHANGED <<crArgs, crEnv, sitemapPages, crCandidates, pagesToVisit, seenScripts, crScripts, crSIdx,
                   crInflight, crClock, jsAssets>>
    /\ UNCHANGED <<blVars, ddVars, smVars, sbVars, rpVars, nmVars, plVars>>

\* await page.goto(pageUrl, ...) has settled; a string that is no URL never
\* loads.  On failure the catch logs and the loop goes on.
CRGotoSettled(ok) ==
    /\ crPc = "await goto"
    /\ ok => URLHostname(pagesToVisit[crIdx]) # Invalid
    /\ UNCHANGED <<allFoundUrls, downloadedScriptsData, downloadedScriptsCount>>
    /\ IF ok
       THEN /\ crPc' = "await urls"
            /\ UNCHANGED <<crIdx, seenPages, crConsole, crFiles>>
       ELSE Advance(pagesToVisit, crIdx + 1,
                    Append(crConsole, Line("page error", pagesToVisit[crIdx])))
    /\ UNCHANGED <<crArgs, crEnv, sitemapPages, crCandidates, pagesToVisit, seenScripts, crScripts, crSIdx,
                   crInflight, crClock, jsAssets, crExit>>
    /\ UNCHANGED <<blVars, ddVars, smVars, sbVars, rpVars, nmVars, plVars>>

\* Variant of CRUrlsSettled that records a page, without URLs, when the
\* extraction has failed.
CRUrlsSettledRecordFailed(ok) ==
    /\ crPc = "await urls"
    /\ UNCHANGED <<downloadedScriptsData, downloadedScriptsCount>>
    /\ IF ok
       THEN /\ allFoundUrls' = Append(allFoundUrls,
                                      [page |-> pagesToVisit[crIdx],
                                       urls |-> CRSite(pagesToVisit[crIdx]).urls])
            /\ crPc' = "await scripts"
            /\ UNCHANGED <<crIdx, seenPages, crConsole, crFiles>>
       ELSE /\ allFoundUrls' = Append(allFoundUrls,
                                      [page |-> pagesToVisit[crIdx], urls |-> <<>>])
            /\ Advance(pagesToVisit, crIdx + 1,
                       Append(crConsole, Line("page error", pagesToVisit[crIdx])))
    /\ UNCHANGED <<crArgs, crEnv, sitemapPages, crCandidates, pagesToVisit, seenScripts, crScripts, crSIdx,
                   crInflight, crClock, jsAssets, crExit>>
    /\ UNCHANGED <<blVars, ddVars, smVars, sbVars, rpVars, nmVars, plVars>>

\* The first page.evaluate has settled: the URLs of the page are recorded.
CRUrlsSettled(ok) ==
    /\ crPc = "await urls"
    /\ UNCHANGED <<downloadedScriptsData, downloadedScriptsCount>>
    /\ IF ok
       THEN /\ allFoundUrls' = Append(allFoundUrls,
                                      [page |-> pagesToVisit[crIdx],
                                       urls |-> CRSite(pagesToVisit[crIdx]).urls])
            /\ crPc' = "await scripts"
            /\ UNCHANGED <<crIdx, seenPages, crConsole, crFiles>>
       ELSE /\ UNCHANGED allFoundUrls
            /\ Advance(pagesToVisit, crIdx + 1,
                       Append(crConsole, Line("page error", pagesToVisit[crIdx])))
    /\ UNCHANGED <<crArgs, crEnv, sitemapPages, crCandidates, pagesToVisit, seenScripts, crScripts, crSIdx,
                   crInflight, crClock, jsAssets, crExit>>
    /\ UNCHANGED <<blVars, ddVars, smVars, sbVars, rpVars, nmVars, plVars>>

\* The synchronous part of the script loop from position k: a script seen
\* before is passed over; a new one is marked seen at once, then skipped by
\* domain, dropped when its URL does not parse, or is the one to download.
RECURSIVE ScanScripts(_, _, _, _, _)
ScanScripts(scripts, k, seen, skipDomains, console) ==
    IF k > Len(scripts) THEN [k |-> k, seen |-> seen, console |-> console]
    ELSE IF scripts[k] \in seen
    THEN ScanScripts(scripts, k + 1, seen, skipDomains, console)
    ELSE LET marked == seen \cup {scripts[k]}
         IN  IF isScriptDomainSkipped(skipDomains, scripts[k])
             THEN ScanScripts(scripts, k + 1, marked, skipDomains,
                              Append(console, Line("skip", scripts[k])))
             ELSE IF URLPathname(scripts[k]) = Invalid
             THEN ScanScripts(scripts, k + 1, marked, skipDomains,
                              Append(console, Line("script error", scripts[k])))
             ELSE [k |-> k, seen |-> marked,
                   console |-> Append(console, Line("download", scripts[k]))]

\* fs.createWriteStream(dest) creates the file, or empties the one there.
FileWritten(dir, name, content) ==
    {f \in dir : f.name # name} \cup {[name |-> name, content |-> content]}

\* The file of a settled download: the script's text, nothing, or no file.
Settled(dir, d, outcome) ==
    IF outcome = "ok" THEN FileWritten(dir, d.filename, d.url)
    ELSE IF outcome = "error" THEN {f \in dir : f.name # d.filename}
    ELSE dir

\* The script loop from position k, up to the next await: downloadFile of
\* the next new script, or the page loop when the scripts are through.
ScriptLoop(scripts, k, seen, dir, console) ==
    LET r == ScanScripts(scripts, k, seen, scriptSkipDomains(crEnv), console)
    IN  /\ seenScripts' = r.seen
        /\ IF r.k <= Len(scripts)
           THEN \E now \in {t \in CRTimes : t >= crClock}, rnd \in CRRands :
                   LET name == uniqueName(now, rnd, basename(URLPathname(scripts[r.k])))
                   IN  /\ crClock' = now
                       /\ crInflight' = <<[url |-> scripts[r.k], filename |-> name]>>
                       /\ jsAssets' = FileWritten(dir, name, <<>>)
                       /\ crScripts' = scripts
                       /\ crSIdx' = r.k
                       /\ crConsole' = r.console
                       /\ crPc' = "await download"
                       /\ UNCHANGED <<crIdx, seenPages, crFiles>>
           ELSE /\ crInflight' = <<>>
                /\ crScripts' = <<>>
                /\ crSIdx' = 0
                /\ jsAssets' = dir
                /\ UNCHANGED crClock
                /\ Advance(pagesToVisit, crIdx + 1, r.console)

\* The second page.evaluate has settled: the scripts of the page.
CRScriptsSettled(ok) ==
    /\ crPc = "await scripts"
    /\ UNCHANGED <<allFoundUrls, downloadedScriptsData, downloadedScriptsCount>>
    /\ IF ok
       THEN ScriptLoop(CRSite(pagesToVisit[crIdx]).scripts, 1, seenScripts, jsAssets,
                       crConsole)
       ELSE /\ Advance(pagesToVisit, crIdx + 1,
                       Append(crConsole, Line("page error", pagesToVisit[crIdx])))
            /\ UNCHANGED <<seenScripts, crScripts, crSIdx, crInflight, crClock, jsAssets>>
    /\ UNCHANGED <<crArgs, crEnv, sitemapPages, crCandidates, pagesToVisit, crExit>>
    /\ UNCHANGED <<blVars, ddVars, smVars, sbVars, rpVars, nmVars, plVars>>

\* What downloadFile can come to: the file written, a status other than
\* 200 (the file stays empty), a request error (the file is unlinked).
DownloadOutcomes == {"ok", "status", "error"}

\* Variant of seenAfterDownload that forgets a script whose download failed.
seenAfterDownloadForget(seen, url, outcome) ==
    IF outcome = "ok" THEN seen ELSE seen \ {url}

\* seenScripts is not touched by the outcome of a download.
seenAfterDownload(seen, url, outcome) == seen

\* Variant of CRDownloadSettled that counts a download before its outcome
\* is known.
CRDownloadSettledCountAll(outcome) ==
    /\ crPc = "await download"
    /\ UNCHANGED allFoundUrls
    /\ LET d == crInflight[1]
       IN  /\ downloadedScriptsCount' = downloadedScriptsCount + 1
           /\ downloadedScriptsData' =
                 IF outcome = "ok"
                 THEN Append(downloadedScriptsData,
                             [filename |-> d.filename, originalUrl |-> d.url,
                              foundOnPage |-> pagesToVisit[crIdx]])
                 ELSE downloadedScriptsData
           /\ ScriptLoop(crScripts, crSIdx + 1,
                         seenAfterDownload(seenScripts, d.url, outcome),
                         Settled(jsAssets, d, outcome),
                         IF outcome = "ok" THEN crConsole
                         ELSE Append(crConsole, Line("script error", d.url)))
    /\ UNCHANGED <<crArgs, crEnv, sitemapPages, crCandidates, pagesToVisit, crExit>>
    /\ UNCHANGED <<blVars, ddVars, smVars, sbVars, rpVars, nmVars, plVars>>

\* await downloadFile(scriptUrl, destPath) has settled.
CRDownloadSettled(outcome) ==
    /\ crPc = "await download"
    /\ UNCHANGED allFoundUrls
    /\ LET d == crInflight[1]
       IN  /\ IF outcome = "ok"
              THEN /\ downloadedScriptsCount' = downloadedScriptsCount + 1
                   /\ downloadedScriptsData' =
                         Append(downloadedScriptsData,
                                [filename |-> d.filename, originalUrl |-> d.url,
                                 foundOnPage |-> pagesToVisit[crIdx]])
              ELSE UNCHANGED <<downloadedScriptsData, downloadedScriptsCount>>
           /\ ScriptLoop(crScripts, crSIdx + 1,
                         seenAfterDownload(seenScripts, d.url, outcome),
                         Settled(jsAssets, d, outcome),
                         IF outcome = "ok" THEN crConsole
                         ELSE Append(crConsole, Line("script error", d.url)))
    /\ UNCHANGED <<crArgs, crEnv, sitemapPages, crCandidates, pagesToVisit, crExit>>
    /\ UNCHANGED <<blVars, ddVars, smVars, sbVars, rpVars, nmVars, plVars>>

\* await browser.close() has settled: the process ends.
CRClosed ==
    /\ crPc = "await close"
    /\ crPc' = "exited"
    /\ crExit' = <<0>>
    /\ UNCHANGED <<crArgs, crEnv, sitemapPages, crCandidates, pagesToVisit, crIdx, seenPages, seenScripts,
                   allFoundUrls, downloadedScriptsData, downloadedScriptsCount,
                   crScripts, crSIdx, crInflight, crClock, jsAssets, crConsole, crFiles>>
    /\ UNCHANGED <<blVars, ddVars, smVars, sbVars, rpVars, nmVars, plVars>>

NextCR ==
    \/ CRUsage
    \/ CRStart
    \/ \E resolved \in CRSitemaps : CRSitemapSettled(resolved)
    \/ \E ok \in BOOLEAN : CRGotoSettled(ok)
    \/ \E ok \in BOOLEAN : CRUrlsSettled(ok)
    \/ \E ok \in BOOLEAN : CRScriptsSettled(ok)
    \/ \E outcome \in DownloadOutcomes : CRDownloadSettled(outcome)
    \/ CRClosed

(***************************************************************************)
(* download-assets.js: parseSitemap                                        *)
(***************************************************************************)

\* const sitemapUrl = targetUrl.endsWith('/') ? ... : `${targetUrl}/sitemap.xml`
sitemapUrl == Seed \o <<"/", "sitemap", ".", "xml">>

SitemapA == Seed \o <<"/", "sitemap", "-", "a", ".", "xml">>

SitemapB == Seed \o <<"/", "sitemap", "-", "b", ".", "xml">>

SMUrls == {sitemapUrl, SitemapA, SitemapB}

\* The most <sitemap> entries of the sitemap index the resolution starts at.
MaxLocs == 3

\* The deepest nesting of parseSitemap calls that is followed.
MaxDepth == 4

\* A sitemap index: result.sitemapindex.sitemap is a non-empty array.
SMIndexes(n) ==
    {[kind |-> "sitemapindex", locs |-> l] :
        l \in UNION {[1..k -> SMUrls] : k \in 1..n}}

\* A url set: result.urlset.url is a non-empty array.
SMUrlsets ==
    {[kind |-> "urlset", locs |-> l] :
        l \in {<<BlogPage, KeptPage>>, <<Seed, BlogPage>>, <<KeptPage>>}}

\* What else a sitemap URL can answer: a document on which page.goto
\* rejects, one on which the fetch in the page rejects, one xml2js rejects
\* (an index entry or url entry without a loc throws in the same try), and
\* well-formed XML that is neither an index nor a url set.
SMOthers ==
    {[kind |-> k, locs |-> <<>>] : k \in {"goto fails", "fetch fails", "parse fails", "other"}}

\* The webs a resolution is run against: any index of up to MaxLocs entries
\* at the sitemap URL, indexes of one entry below it.
SMWebs ==
    {w \in [SMUrls -> SMIndexes(MaxLocs) \cup SMUrlsets \cup SMOthers] :
        \A u \in SMUrls \ {sitemapUrl} : w[u].kind = "sitemapindex" => Len(w[u].locs) = 1}

\* A call of parseSitemap: console.log(`Fetching sitemap: ...`), then
\* page.goto is awaited.  i counts the entries of an index already resolved.
SMFrame(url) == [url |-> url, step |-> "goto", i |-> 0, urls |-> <<>>]

SMInit ==
    /\ smPc = "start"
    /\ smWeb \in SMWebs
    /\ smStack = <<>>
    /\ smResult = <<>>
    /\ smConsole = <<>>

\* const sitemapPages = await parseSitemap(page, sitemapUrl);
SMStart ==
    /\ smPc = "start"
    /\ smPc' = "resolving"
    /\ smStack' = <<SMFrame(sitemapUrl)>>
    /\ smConsole' = Append(smConsole, Line("fetch sitemap", sitemapUrl))
    /\ UNCHANGED <<smWeb, smResult>>
    /\ UNCHANGED <<blVars, ddVars, crVars, sbVars, rpVars, nmVars, plVars>>

\* Variant of concat: the child's URLs are put in front of the ones
\* collected so far.
concatInFront(urls, childUrls) == childUrls \o urls

\* urls = urls.concat(await parseSitemap(page, loc));
concat(urls, childUrls) == urls \o childUrls

\* The innermost call returns value to the calls that wait for it: the
\* caller appends it and goes on with the next entry of its index, which
\* starts a call, or has no entry left and returns itself.
RECURSIVE SMReturn(_, _, _, _)
SMReturn(web, callers, value, console) ==
    IF callers = <<>>
    THEN [stack |-> <<>>, result |-> <<value>>, console |-> console]
    ELSE LET caller == callers[Len(callers)]
             outer == SubSeq(callers, 1, Len(callers) - 1)
             urls == concat(caller.urls, value)
             locs == web[caller.url].locs
         IN  IF caller.i + 1 < Len(locs)
             THEN [stack |-> outer \o <<[caller EXCEPT !.i = caller.i + 1, !.urls = urls],
                                        SMFrame(locs[caller.i + 2])>>,
                   result |-> <<>>,
                   console |-> Append(console, Line("fetch sitemap", locs[caller.i + 2]))]
             ELSE SMReturn(web, outer, urls, console)

\* Variant of SMCatch: the failure is thrown on to the caller, whose own
\* catch block returns [] for the whole index.
RECURSIVE SMCatchRethrow(_, _, _, _)
SMCatchRethrow(web, callers, url, console) ==
    IF callers = <<>>
    THEN [stack |-> <<>>, result |-> <<<<>>>>,
          console |-> Append(console, Line("sitemap error", url))]
    ELSE SMCatchRethrow(web, SubSeq(callers, 1, Len(callers) - 1),
                        callers[Len(callers)].url,
                        Append(console, Line("sitemap error", url)))

\* catch (e) { console.error(`Error parsing sitemap ...`); return []; }
SMCatch(web, callers, url, console) ==
    SMReturn(web, callers, <<>>, Append(console, Line("sitemap error", url)))

\* What the innermost call does when the promise it awaits settles.
SMSettle(web, stack, console) ==
    LET call == stack[Len(stack)]
        callers == SubSeq(stack, 1, Len(stack) - 1)
        doc == web[call.url]
        next(step) == [stack |-> Append(callers, [call EXCEPT !.step = step]),
                       result |-> <<>>, console |-> console]
    IN  CASE call.step = "goto" ->
                 IF doc.kind = "goto fails"
                 THEN SMCatch(web, callers, call.url, console)
                 ELSE next("evaluate")
          [] call.step = "evaluate" ->
                 IF doc.kind = "fetch fails"
                 THEN SMCatch(web, callers, call.url, console)
                 ELSE next("parse")
          [] call.step = "parse" ->
                 CASE doc.kind = "parse fails" ->
                          SMCatch(web, callers, call.url, console)
                   [] doc.kind = "sitemapindex" ->
                          [stack |-> stack \o <<SMFrame(doc.locs[1])>>,
                           result |-> <<>>,
                           console |-> Append(console, Line("fetch sitemap", doc.locs[1]))]
                   [] doc.kind = "urlset" ->
                          SMReturn(web, callers, doc.locs, console)
                   [] OTHER -> SMReturn(web, callers, <<>>, console)

\* The promise the innermost parseSitemap call awaits settles.
SMSettled ==
    /\ smPc = "resolving"
    /\ LET after == SMSettle(smWeb, smStack, smConsole)
       IN  /\ Len(after.stack) <= MaxDepth
           /\ smStack' = after.stack
           /\ smResult' = after.result
           /\ smConsole' = after.console
           /\ smPc' = IF after.stack = <<>> THEN "done" ELSE "resolving"
    /\ UNCHANGED smWeb
    /\ UNCHANGED <<blVars, ddVars, crVars, sbVars, rpVars, nmVars, plVars>>

NextSM ==
    \/ SMStart
    \/ SMSettled

(***************************************************************************)
(* check-safebrowsing.js                                                   *)
(***************************************************************************)

SBTargets == {<<"a", ".", "com">>, Seed}

\* GOOGLE_SAFE_BROWSING_KEY: not set, set to the empty string, set to a key.
SBKeys == {<<>>, <<<<>>>>, <<<<"key">>>>}

SBStatusCodes == {200, 403}

Malware == [threatType |-> "MALWARE"]

SocialEngineering == [threatType |-> "SOCIAL_ENGINEERING"]

\* The response bodies: text that is no JSON, the JSON value null, and an
\* object with or without a matches array.
SBBodies ==
    {[json |-> "invalid", hasMatches |-> FALSE, matches |-> <<>>],
     [json |-> "null", hasMatches |-> FALSE, matches |-> <<>>],
     [json |-> "object", hasMatches |-> FALSE, matches |-> <<>>],
     [json |-> "object", hasMatches |-> TRUE, matches |-> <<>>],
     [json |-> "object", hasMatches |-> TRUE, matches |-> <<Malware>>],
     [json |-> "object", hasMatches |-> TRUE, matches |-> <<Malware, SocialEngineering>>]}

\* writeReport of check-safebrowsing.js; the timestamp is left out.
sbWriteReport(status, matches, text) ==
    <<[url |-> sbArgs[1], status |-> status, matches |-> matches, details |-> text]>>

SBLine(kind, text) == [kind |-> kind, text |-> text]

SBInit ==
    /\ sbArgs \in {<<>>} \cup {<<t>> : t \in SBTargets}
    /\ sbKey \in SBKeys
    /\ sbPc = "start"
    /\ sbRequests = <<>>
    /\ sbReport = <<>>
    /\ sbConsole = <<>>
    /\ sbExit = <<>>

\* if (args.length < 1) { console.error('Usage: ...'); process.exit(1); }
SBUsage ==
    /\ sbPc = "start"
    /\ sbArgs = <<>>
    /\ sbPc' = "exited"
    /\ sbConsole' = Append(sbConsole, SBLine("usage", <<>>))
    /\ sbExit' = <<1>>
    /\ UNCHANGED <<sbArgs, sbKey, sbRequests, sbReport>>
    /\ UNCHANGED <<blVars, ddVars, crVars, smVars, rpVars, nmVars, plVars>>

\* if (!apiKey): true of an unset variable and of an empty one.
missingKey(apiKey) == apiKey = <<>> \/ apiKey[1] = <<>>

\* Ensure URL has protocol for the check if it's just a domain.
checkUrl(input) ==
    IF ~StartsWith(input, <<"http", ":", "/", "/">>)
       /\ ~StartsWith(input, <<"https", ":", "/", "/">>)
    THEN <<"https", ":", "/", "/">> \o input
    ELSE input

\* Variant of SBStart without the check of the key: the request is sent
\* whatever GOOGLE_SAFE_BROWSING_KEY holds.
SBStartNoKeyCheck ==
    /\ sbPc = "start"
    /\ sbArgs # <<>>
    /\ sbConsole' = Append(sbConsole, SBLine("checking", checkUrl(sbArgs[1])))
    /\ sbRequests' = Append(sbRequests, checkUrl(sbArgs[1]))
    /\ sbPc' = "await response"
    /\ UNCHANGED <<sbReport, sbExit>>
    /\ UNCHANGED <<sbArgs, sbKey>>
    /\ UNCHANGED <<blVars, ddVars, crVars, smVars, rpVars, nmVars, plVars>>

\* The script from the key check to req.end(): without a key the report
\* says "skipped" and the process exits 0, with one the request is sent.
SBStart ==
    /\ sbPc = "start"
    /\ sbArgs # <<>>
    /\ IF missingKey(sbKey)
       THEN /\ sbConsole' = Append(sbConsole, SBLine("missing key", <<>>))
            /\ sbReport' = sbWriteReport("skipped", <<>>, <<"Missing GOOGLE_SAFE_BROWSING_KEY">>)
            /\ sbPc' = "exited"
            /\ sbExit' = <<0>>
            /\ UNCHANGED sbRequests
       ELSE /\ sbConsole' = Append(sbConsole, SBLine("checking", checkUrl(sbArgs[1])))
            /\ sbRequests' = Append(sbRequests, checkUrl(sbArgs[1]))
            /\ sbPc' = "await response"
            /\ UNCHANGED <<sbReport, sbExit>>
    /\ UNCHANGED <<sbArgs, sbKey>>
    /\ UNCHANGED <<blVars, ddVars, crVars, smVars, rpVars, nmVars, plVars>>

\* res.on('end'): the response has arrived in full.
SBResponseEnd(statusCode, body) ==
    /\ sbPc = "await response"
    /\ sbPc' = "exited"
    /\ IF statusCode # 200
       THEN /\ sbConsole' = Append(sbConsole, SBLine("api status", <<ToString(statusCode)>>))
            /\ sbReport' = sbWriteReport("error", <<>>, <<"API returned", ToString(statusCode)>>)
            /\ sbExit' = <<0>>
       ELSE IF body.json = "invalid" \/ body.json = "null"
       THEN \* JSON.parse throws, or response.matches is read off null
            /\ sbConsole' = Append(sbConsole, SBLine("parse error", <<>>))
            /\ sbReport' = sbWriteReport("error", <<>>, <<"Parse error">>)
            /\ sbExit' = <<0>>
       ELSE IF body.hasMatches /\ Len(body.matches) > 0
       THEN /\ sbConsole' = Append(sbConsole,
                                   SBLine("unsafe", [k \in 1..Len(body.matches) |-> body.matches[k].threatType]))
            /\ sbReport' = sbWriteReport("unsafe", body.matches, <<"URL found in Safe Browsing list">>)
            /\ sbExit' = <<1>>
       ELSE /\ sbConsole' = Append(sbConsole, SBLine("clean", <<>>))
            /\ sbReport' = sbWriteReport("clean", <<>>, <<"No threats found">>)
            /\ sbExit' = <<0>>
    /\ UNCHANGED <<sbArgs, sbKey, sbRequests>>
    /\ UNCHANGED <<blVars, ddVars, crVars, smVars, rpVars, nmVars, plVars>>

\* req.on('error'): the message is logged; then the arguments of writeReport
\* are evaluated, and `result.error = e.message` names a variable declared
\* nowhere in the script.  The ReferenceError is thrown inside the handler,
\* nothing catches it, and node ends the process with code 1.
SBRequestError ==
    /\ sbPc = "await response"
    /\ sbPc' = "exited"
    /\ sbConsole' = sbConsole \o <<SBLine("request error", <<>>),
                                   SBLine("uncaught exception", <<"result is not defined">>)>>
    /\ sbExit' = <<1>>
    /\ UNCHANGED <<sbArgs, sbKey, sbRequests, sbReport>>
    /\ UNCHANGED <<blVars, ddVars, crVars, smVars, rpVars, nmVars, plVars>>

NextSB ==
    \/ SBUsage
    \/ SBStart
    \/ \E statusCode \in SBStatusCodes, body \in SBBodies : SBResponseEnd(statusCode, body)
    \/ SBRequestError

(***************************************************************************)
(* send-report.js: generateReport                                          *)
(***************************************************************************)

\* The most results of one file of retire-report.json, infected files of
\* the ClamAV summary and entries of deadDomains.
MaxFindings == 1

\* The most files listed in retire-report.json.
MaxFiles == 2

\* An optional number: <<>> when the field or the line is missing.
Optional(n) == {<<>>} \cup {<<k>> : k \in 0..n}

\* retire-report.json: missing, no JSON, JSON that is no array, or an array
\* of files, each with or without results (results counts them).
RetireReports ==
    {[kind |-> k, files |-> <<>>] : k \in {"absent", "unparsable", "object"}}
    \cup {[kind |-> "array", files |-> f] :
            f \in UNION {[1..n -> [results : Optional(MaxFindings)]] : n \in 0..MaxFiles}}

\* clamav-report.txt: missing, or a text with or without the line
\* "Infected files: n" in its summary.
ClamavReports ==
    {[kind |-> "absent", infected |-> <<>>]}
    \cup {[kind |-> "text", infected |-> n] : n \in Optional(MaxFindings)}

\* dead-domains.json: missing, no JSON, or an object with or without
\* deadDomains (deadDomains counts its entries).
DeadDomainsReports ==
    {[kind |-> k, deadDomains |-> <<>>] : k \in {"absent", "unparsable"}}
    \cup {[kind |-> "object", deadDomains |-> n] : n \in Optional(MaxFindings)}

\* blacklist-report.json: missing, no JSON, or an object with a status.
BlacklistReports ==
    {[kind |-> k, status |-> ""] : k \in {"absent", "unparsable"}}
    \cup {[kind |-> "object", status |-> st] : st \in {"listed", "blocked", "clean", "error"}}

\* retireData.forEach(fileOpt => { if (fileOpt.results && ...length > 0) ... })
RECURSIVE countRetire(_)
countRetire(files) ==
    IF files = <<>> THEN 0
    ELSE LET fileOpt == Head(files)
         IN  (IF fileOpt.results # <<>> /\ fileOpt.results[1] > 0
              THEN fileOpt.results[1] ELSE 0) + countRetire(Tail(files))

retireIssuesOf(report) ==
    IF report.kind = "array" THEN countRetire(report.files) ELSE 0

\* const match = txt.match(/Infected files: (\d+)/);
clamavIssuesOf(report) ==
    IF report.kind = "text" /\ report.infected # <<>> /\ report.infected[1] > 0
    THEN report.infected[1] ELSE 0

\* Variant of deadDomainIssuesOf that counts a report it cannot read as a
\* finding.
deadDomainIssuesOfMissingCounts(report) ==
    IF report.kind # "object" THEN 1
    ELSE IF report.deadDomains # <<>> /\ report.deadDomains[1] > 0
    THEN report.deadDomains[1] ELSE 0

deadDomainIssuesOf(report) ==
    IF report.kind = "object" /\ report.deadDomains # <<>> /\ report.deadDomains[1] > 0
    THEN report.deadDomains[1] ELSE 0

blacklistIssuesOf(report) ==
    IF report.kind = "object" /\ report.status = "listed" THEN 1 ELSE 0

RPInit ==
    /\ rpPc = "start"
    /\ retireReport = <<>>
    /\ clamavReport = <<>>
    /\ deadDomainsReport = <<>>
    /\ blacklistReport = <<>>
    /\ retireIssues = 0
    /\ clamavIssues = 0
    /\ deadDomainIssues = 0
    /\ blacklistIssues = 0
    /\ totalIssues = <<>>
    /\ reportHtml = <<>>
    /\ subject = <<>>
    /\ mailSent = "no"

\* generateReport reads the reports the scanners left in reports/, counts
\* their findings and awaits generateReportContent.  run-scan.sh starts it
\* after the checkers have ended.
generateReport ==
    /\ rpPc = "start"
    /\ sbPc = "exited"
    /\ \E retire \in RetireReports, clamav \in ClamavReports,
          dead \in DeadDomainsReports, blacklist \in BlacklistReports :
          /\ retireReport' = <<retire>>
          /\ clamavReport' = <<clamav>>
          /\ deadDomainsReport' = <<dead>>
          /\ blacklistReport' = <<blacklist>>
          /\ retireIssues' = retireIssuesOf(retire)
          /\ clamavIssues' = clamavIssuesOf(clamav)
          /\ deadDomainIssues' = deadDomainIssuesOf(dead)
          /\ blacklistIssues' = blacklistIssuesOf(blacklist)
    /\ rpPc' = "await content"
    /\ UNCHANGED <<totalIssues, reportHtml, subject, mailSent>>
    /\ UNCHANGED <<blVars, ddVars, crVars, smVars, sbVars, nmVars, plVars>>

\* What generateReportContent resolves to: null without LLM_PROVIDER or
\* LLM_API_KEY and when the generation failed, else the generated body.
RPContents == {"null", "generated"}

\* Variant of subjectOf: one issue is still "Clean".
subjectOfMoreThanOne(total) == IF total > 1 THEN "Issues Found" ELSE "Clean"

\* `WebsiteSecurity Report: ${totalIssues > 0 ? "Issues Found" : "Clean"}`
subjectOf(total) == IF total > 0 THEN "Issues Found" ELSE "Clean"

\* generateReportContent has settled: the total is computed, report.html is
\* written, and unless --local was given or SMTP_HOST or EMAIL_TO is not set
\* the mail is handed to the transporter.
RPContentSettled(htmlContent, localMode, smtp) ==
    /\ rpPc = "await content"
    /\ totalIssues' = <<retireIssues + clamavIssues + deadDomainIssues + blacklistIssues>>
    /\ reportHtml' = <<IF htmlContent = "null" THEN "fallback template" ELSE htmlContent>>
    /\ IF localMode \/ ~smtp
       THEN /\ rpPc' = "done"
            /\ UNCHANGED <<subject, mailSent>>
       ELSE /\ rpPc' = "await mail"
            /\ subject' = <<subjectOf(totalIssues'[1])>>
            /\ mailSent' = "pending"
    /\ UNCHANGED <<rpFiles, rpCounts>>
    /\ UNCHANGED <<blVars, ddVars, crVars, smVars, sbVars, nmVars, plVars>>

\* transporter.sendMail has settled; a rejection is logged.
RPMailSettled(ok) ==
    /\ rpPc = "await mail"
    /\ rpPc' = "done"
    /\ mailSent' = IF ok THEN "ok" ELSE "failed"
    /\ UNCHANGED <<rpFiles, rpCounts, totalIssues, reportHtml, subject>>
    /\ UNCHANGED <<blVars, ddVars, crVars, smVars, sbVars, nmVars, plVars>>

NextRP ==
    \/ generateReport
    \/ \E htmlContent \in RPContents, localMode \in BOOLEAN, smtp \in BOOLEAN :
          RPContentSettled(htmlContent, localMode, smtp)
    \/ \E ok \in BOOLEAN : RPMailSettled(ok)

(***************************************************************************)
(* extractDomain of both checkers on one target                            *)
(***************************************************************************)

NMHosts == {<<"a", ".", "com">>, <<"cdn", ".", "b", ".", "com">>,
            <<"example", ".", "org">>, <<"localhost">>}

NMPaths == {<<>>, <<"/">>, <<"/", "p">>, <<"/", "p", "/", "q">>}

\* The target written protocol-relative, "//h/p", and with its scheme.
NMForms == {"relative", "absolute"}

NMInput(form) ==
    (IF form = "relative" THEN <<"/", "/">> ELSE HTTPS) \o nmHost \o nmPath

NMInit ==
    /\ nmHost \in NMHosts
    /\ nmPath \in NMPaths
    /\ nmBL = [form \in NMForms |-> <<>>]
    /\ nmDD = [form \in NMForms |-> <<>>]

\* const domain = extractDomain(input);  (check-blacklist.js)
NMExtractBL(form) ==
    /\ nmBL # <<>>
    /\ nmBL[form] = <<>>
    /\ nmBL' = [nmBL EXCEPT ![form] = <<extractDomain(NMInput(form), NMInput(form))>>]
    /\ UNCHANGED <<nmHost, nmPath, nmDD>>
    /\ UNCHANGED <<blVars, ddVars, crVars, smVars, sbVars, rpVars, plVars>>

\* const domain = extractDomain(foundUrl);  (check-dead-domains.js)
NMExtractDD(form) ==
    /\ nmDD # <<>>
    /\ nmDD[form] = <<>>
    /\ nmDD' = [nmDD EXCEPT ![form] = <<extractDomainDD(NMInput(form))>>]
    /\ UNCHANGED <<nmHost, nmPath, nmBL>>
    /\ UNCHANGED <<blVars, ddVars, crVars, smVars, sbVars, rpVars, plVars>>

NextNM ==
    \/ \E form \in NMForms : NMExtractBL(form)
    \/ \E form \in NMForms : NMExtractDD(form)

(***************************************************************************)
(* run-scan.sh                                                             *)
(***************************************************************************)

\* The commands of run-scan.sh that can end with a non-zero code, in order;
\* orTrue tells whether the line ends in `|| true` (or `|| echo ...`).  The
\* echo, mkdir -p and cat lines in between are taken to succeed.
Stages ==
    << [name |-> "download-assets", orTrue |-> FALSE],
       [name |-> "check-dead-domains", orTrue |-> TRUE],
       [name |-> "check-blacklist", orTrue |-> TRUE],
       [name |-> "check-safebrowsing", orTrue |-> TRUE],
       [name |-> "retire", orTrue |-> TRUE],
       [name |-> "freshclam", orTrue |-> TRUE],
       [name |-> "clamscan", orTrue |-> TRUE],
       [name |-> "send-report", orTrue |-> FALSE],
       [name |-> "tar", orTrue |-> FALSE] >>

PLCodes == {0, 1}

PLInit ==
    /\ plPc = 1
    /\ plRan = <<>>
    /\ plExit = <<>>

\* Variant of tolerated: no command is followed by `|| true`.
toleratedNever(stage) == FALSE

\* Under set -e the script goes on after a failed command only when the
\* command is the left side of `||`.
tolerated(stage) == stage.orTrue

\* The command of stage plPc ends with exit code code.
PLStage(code) ==
    /\ plPc \in 1..Len(Stages)
    /\ plRan' = Append(plRan, [name |-> Stages[plPc].name, code |-> code])
    /\ IF code # 0 /\ ~tolerated(Stages[plPc])
       THEN /\ plPc' = 0
            /\ plExit' = <<code>>
       ELSE IF plPc = Len(Stages)
       THEN /\ plPc' = 0
            /\ plExit' = <<0>>
       ELSE /\ plPc' = plPc + 1
            /\ UNCHANGED plExit
    /\ UNCHANGED <<blVars, ddVars, crVars, smVars, sbVars, rpVars, nmVars>>

NextPL == \E code \in PLCodes : PLStage(code)

\* The variables of a checker that is not running.
BLIdle ==
    /\ blArgs = <<>>
    /\ blPc = "idle"
    /\ blDomain = <<>>
    /\ blIdx = 0
    /\ blIp = <<>>
    /\ results = <<>>
    /\ listed = FALSE
    /\ details = <<>>
    /\ blInflight = {}
    /\ blQueried = <<>>
    /\ blReplies = <<>>
    /\ blConsole = <<>>
    /\ blReport = <<>>
    /\ blExit = <<>>

DDIdle ==
    /\ ddPc = "idle"
    /\ ddRefs = 0
    /\ ddCalls = {}
    /\ scriptMap = <<>>
    /\ ddScanned = {}
    /\ domainSources = <<>>
    /\ domainsToCheck = <<>>
    /\ ddPending = {}
    /\ ddLookups = <<>>
    /\ deadDomains = <<>>
    /\ ddFindings = <<>>
    /\ ddExit = <<>>

CRIdle ==
    /\ crArgs = <<>>
    /\ crEnv = CREnvs[1]
    /\ crPc = "idle"
    /\ sitemapPages = <<>>
    /\ pagesToVisit = <<>>
    /\ crCandidates = <<>>
    /\ crIdx = 0
    /\ seenPages = {}
    /\ seenScripts = {}
    /\ allFoundUrls = <<>>
    /\ downloadedScriptsData = <<>>
    /\ downloadedScriptsCount = 0
    /\ crScripts = <<>>
    /\ crSIdx = 0
    /\ crInflight = <<>>
    /\ crClock = 0
    /\ jsAssets = {}
    /\ crConsole = <<>>
    /\ foundUrlsFile = <<>>
    /\ downloadedScriptsFile = <<>>
    /\ scanMetadata = <<>>
    /\ crExit = <<>>

SMIdle ==
    /\ smPc = "idle"
    /\ smWeb = <<>>
    /\ smStack = <<>>
    /\ smResult = <<>>
    /\ smConsole = <<>>

SBIdle ==
    /\ sbArgs = <<>>
    /\ sbKey = <<>>
    /\ sbPc = "idle"
    /\ sbRequests = <<>>
    /\ sbReport = <<>>
    /\ sbConsole = <<>>
    /\ sbExit = <<>>

RPIdle ==
    /\ rpPc = "idle"
    /\ retireReport = <<>>
    /\ clamavReport = <<>>
    /\ deadDomainsReport = <<>>
    /\ blacklistReport = <<>>
    /\ retireIssues = 0
    /\ clamavIssues = 0
    /\ deadDomainIssues = 0
    /\ blacklistIssues = 0
    /\ totalIssues = <<>>
    /\ reportHtml = <<>>
    /\ subject = <<>>
    /\ mailSent = "no"

\* Neither the malicious-URL checker nor the reporter is running.
ReportIdle == SBIdle /\ RPIdle

NMIdle ==
    /\ nmHost = <<>>
    /\ nmPath = <<>>
    /\ nmBL = <<>>
    /\ nmDD = <<>>

PLIdle ==
    /\ plPc = 0
    /\ plRan = <<>>
    /\ plExit = <<>>

\* Neither the two normalizers on their own nor run-scan.sh is running.
RestIdle == NMIdle /\ PLIdle

InitBL == BLInit /\ DDIdle /\ CRIdle /\ SMIdle /\ ReportIdle /\ RestIdle

InitDD == DDInit /\ BLIdle /\ CRIdle /\ SMIdle /\ ReportIdle /\ RestIdle

InitCR == CRInit /\ BLIdle /\ DDIdle /\ SMIdle /\ ReportIdle /\ RestIdle

InitSM == SMInit /\ BLIdle /\ DDIdle /\ CRIdle /\ ReportIdle /\ RestIdle

InitReport == SBInit /\ RPInit /\ BLIdle /\ DDIdle /\ CRIdle /\ SMIdle /\ RestIdle

InitNorm == NMInit /\ BLIdle /\ DDIdle /\ CRIdle /\ SMIdle /\ ReportIdle /\ PLIdle

InitPipeline == PLInit /\ BLIdle /\ DDIdle /\ CRIdle /\ SMIdle /\ ReportIdle /\ NMIdle

SpecBL == InitBL /\ [][NextBL]_vars

SpecDD == InitDD /\ [][NextDD]_vars

SpecCR == InitCR /\ [][NextCR]_vars

SpecSM == InitSM /\ [][NextSM]_vars

NextReport == NextSB \/ NextRP

SpecReport == InitReport /\ [][NextReport]_vars

SpecNorm == InitNorm /\ [][NextNM]_vars

SpecPipeline == InitPipeline /\ [][NextPL]_vars

\* Either checker, the blacklist checker on a target that does not parse
\* or without a target.
InitMalformed ==
    \/ (BLInitMalformed \/ (BLInit /\ blArgs = <<>>))
          /\ DDIdle /\ CRIdle /\ SMIdle /\ ReportIdle /\ RestIdle
    \/ DDInit /\ BLIdle /\ CRIdle /\ SMIdle /\ ReportIdle /\ RestIdle

SpecMalformed == InitMalformed /\ [][NextBL \/ NextDD]_vars

\* Either checker, run on its own; the blacklist checker on a local target.
InitCheckers ==
    \/ BLInitLocal /\ DDIdle /\ CRIdle /\ SMIdle /\ ReportIdle /\ RestIdle
    \/ DDInit /\ BLIdle /\ CRIdle /\ SMIdle /\ ReportIdle /\ RestIdle

NextCheckers == NextBL \/ NextDD

SpecCheckers == InitCheckers /\ [][NextCheckers]_vars

(***************************************************************************)
(* Properties of the blacklist checker (SpecBL).                           *)
(***************************************************************************)
ListNames == {BLACKLISTS[k].name : k \in 1..Len(BLACKLISTS)}
                \cup {IP_BLACKLISTS[k].name : k \in 1..Len(IP_BLACKLISTS)}

DomainListNames == {BLACKLISTS[k].name : k \in 1..Len(BLACKLISTS)}

\* The ignore set of the list called n, read off the configuration.
IgnoreSet(n) ==
    UNION ({Range(BLACKLISTS[k].ignoreCodes) : k \in {j \in 1..Len(BLACKLISTS) : BLACKLISTS[j].name = n}}
           \cup {Range(IP_BLACKLISTS[k].ignoreCodes) :
                    k \in {j \in 1..Len(IP_BLACKLISTS) : IP_BLACKLISTS[j].name = n}})

\* The settled oracle queries (resolve4 is not an oracle).
OracleReplies == {blReplies[i] : i \in {j \in 1..Len(blReplies) : blReplies[j].source # "resolve4"}}

ReturnedCodes(r) == IF r.reply.ok THEN Range(r.reply.addresses) ELSE {}

RealCodes(r) == ReturnedCodes(r) \ IgnoreSet(r.source)

IgnoredCodes(r) == ReturnedCodes(r) \cap IgnoreSet(r.source)

\* A non-not-found resolver error.
Failed(r) == ~r.reply.ok /\ r.reply.code # "ENOTFOUND"

AnyRealListing == \E r \in OracleReplies : RealCodes(r) # {}

ResultSources == {results[k].source : k \in 1..Len(results)}

\* C1: an oracle contributes a listing iff at least one code it returned is
\* not in its ignoreCodes; a response made only of ignore codes yields none.
C1_ListingIffRealCode ==
    \A r \in OracleReplies : (r.source \in ResultSources) <=> (RealCodes(r) # {})

\* C1 witness: Spamhaus DBL answered two codes, both ignore codes, and the
\* run ended without a Spamhaus DBL listing.
C1_Witness ==
    /\ blPc = "exited"
    /\ \E r \in OracleReplies :
          /\ r.source = "Spamhaus DBL"
          /\ Cardinality(ReturnedCodes(r)) = 2
          /\ RealCodes(r) = {}
    /\ "Spamhaus DBL" \notin ResultSources

\* C2: the persisted report status is "listed" iff at least one oracle
\* returned a real listing, whatever the other oracles returned.
C2_ReportListedIffAnyReal ==
    Len(blReport) > 0 => ((blReport[1].status = "listed") <=> AnyRealListing)

\* C2 witness: a report "listed" on the strength of the IP list alone, after
\* one domain list failed and another answered only ignore codes.
C2_Witness ==
    /\ Len(blReport) > 0
    /\ blReport[1].status = "listed"
    /\ \E r \in OracleReplies : Failed(r)
    /\ \E r \in OracleReplies : IgnoredCodes(r) # {} /\ RealCodes(r) = {}
    /\ \A r \in OracleReplies : RealCodes(r) # {} => r.source = "Spamhaus ZEN"

\* C3 as stated: the checker exits 1 iff some oracle reported a real listing
\* and 0 in every other case.
C3_ExitOneIffListed ==
    Len(blExit) > 0 => ((blExit = <<1>>) <=> AnyRealListing)

\* C3 amended: invoked with a target, the checker exits 1 iff some oracle
\* reported a real listing and 0 otherwise; invoked without one it exits 1
\* before any oracle is queried.
C3_ExitCodeGivenTarget ==
    Len(blExit) > 0 =>
        IF Len(blArgs) >= 1
        THEN /\ (blExit = <<1>>) <=> AnyRealListing
             /\ (blExit = <<0>>) <=> ~AnyRealListing
        ELSE blExit = <<1>> /\ blQueried = <<>>

\* C3 witness: exit code 0 after an oracle answered only ignore codes and
\* another oracle's query failed.
C3_Witness ==
    /\ blExit = <<0>>
    /\ \E r \in OracleReplies : IgnoredCodes(r) # {} /\ RealCodes(r) = {}
    /\ \E r \in OracleReplies : Failed(r)

\* C4: when some oracle returned ignore codes and no oracle returned a real
\* listing, the persisted report carries status "blocked", not "clean".
C4_BlockedWhenOnlyIgnored ==
    (/\ Len(blReport) > 0
     /\ ~AnyRealListing
     /\ \E r \in OracleReplies : IgnoredCodes(r) # {})
        => blReport[1].status = "blocked"

\* C5: a non-not-found resolver error on one oracle's query affects that
\* oracle only: every domain list is still queried, resolve4 and (given an
\* address) every IP list too, each query is answered, and a real listing
\* from any of them still makes the verdict listed.
C5_ErrorIsolated ==
    (blPc = "exited" /\ Len(blArgs) >= 1) =>
        /\ \A k \in 1..Len(BLACKLISTS) :
              /\ QueryName(blDomain, BLACKLISTS[k]) \in Range(blQueried)
              /\ \E r \in OracleReplies : r.source = BLACKLISTS[k].name
        /\ blDomain \in Range(blQueried)
        /\ blIp # <<>> =>
              \A k \in 1..Len(IP_BLACKLISTS) :
                 /\ QueryName(reverseIP(blIp), IP_BLACKLISTS[k]) \in Range(blQueried)
                 /\ \E r \in OracleReplies : r.source = IP_BLACKLISTS[k].name
        /\ AnyRealListing => (Len(blReport) > 0 /\ blReport[1].status = "listed")

\* C5 witness: the first domain list's query failed with a timeout, a later
\* list returned a real listing, and the run ended listed.
C5_Witness ==
    /\ blPc = "exited"
    /\ Len(blReplies) >= 2
    /\ Failed(blReplies[1])
    /\ \E r \in OracleReplies : r.source = "URIBL" /\ RealCodes(r) # {}
    /\ Len(blReport) > 0
    /\ blReport[1].status = "listed"

\* C6: when an oracle query failed with a non-not-found error, the report
\* records it: the report is not the report of a fully clean run.
C6_ErrorRecordedInReport ==
    (Len(blReport) > 0 /\ \E r \in OracleReplies : Failed(r)) =>
        ~(blReport[1].status = "clean" /\ blReport[1].details = CleanDetails)

\* True of a query name that goes to an IP list.
IsIpListQuery(q) == \E k \in 1..Len(IP_BLACKLISTS) : q[Len(q)] = IP_BLACKLISTS[k].suffix

DomainRealListing ==
    \E r \in OracleReplies : r.source \in DomainListNames /\ RealCodes(r) # {}

\* C7: if resolving the A record fails, no IP-list query is issued, the
\* failure is a warning and not an error, and the report and the exit code
\* are decided by the domain lists alone.
C7_IpListsSkippedOnResolveFailure ==
    (\E i \in 1..Len(blReplies) : blReplies[i].source = "resolve4" /\ ~blReplies[i].reply.ok) =>
        /\ \A q \in Range(blQueried) : ~IsIpListQuery(q)
        /\ \A r \in OracleReplies : r.source \in DomainListNames
        /\ \E i \in 1..Len(blConsole) : blConsole[i].kind = "WARN skipping IP blacklists"
        /\ Cardinality({i \in 1..Len(blConsole) : blConsole[i].kind = "ERROR check failed"})
              = Cardinality({r \in OracleReplies : Failed(r)})
        /\ Len(blReport) > 0
        /\ (blReport[1].status = "listed") <=> DomainRealListing
        /\ (blReport[1].status = "clean") <=> ~DomainRealListing
        /\ (blExit = <<1>>) <=> DomainRealListing
        /\ (blExit = <<0>>) <=> ~DomainRealListing

\* C7 witness: resolve4 timed out and the run ended clean with exit code 0.
C7_Witness ==
    /\ \E i \in 1..Len(blReplies) :
          blReplies[i].source = "resolve4" /\ blReplies[i].reply.code = "ETIMEOUT"
    /\ blExit = <<0>>
    /\ Len(blReport) > 0

C9_CodesAttributed ==
    /\ Len(details) = Len(results)
    /\ \A k \in 1..Len(results) :
          /\ \E r \in OracleReplies :
                /\ r.source = results[k].source
                /\ Range(results[k].codes) = RealCodes(r)
                /\ Len(results[k].codes) = Cardinality(RealCodes(r))
          /\ details[k][1] = results[k].source
          /\ Range(details[k]) \cap Codes = Range(results[k].codes)
          /\ Range(details[k]) \cap ListNames = {results[k].source}
    /\ \A r \in OracleReplies :
          (IgnoredCodes(r) # {} /\ RealCodes(r) = {}) =>
              /\ r.source \notin ResultSources
              /\ \A k \in 1..Len(details) : details[k][1] # r.source
              /\ \E i \in 1..Len(blConsole) :
                    /\ blConsole[i].kind = "WARN refused"
                    /\ blConsole[i].source = r.source
                    /\ Range(blConsole[i].codes) = IgnoredCodes(r)
    /\ (Len(blReport) > 0 /\ blReport[1].status = "listed") =>
          /\ Range(blReport[1].details) \cap ListNames = ResultSources
          /\ Range(blReport[1].details) \cap Codes
                = UNION {Range(results[k].codes) : k \in 1..Len(results)}

\* C9 witness: Spamhaus DBL answered only an ignore code, URIBL answered an
\* ignore code and a real one, and the report lists URIBL alone.
C9_Witness ==
    /\ Len(blReport) > 0
    /\ blReport[1].status = "listed"
    /\ \E r \in OracleReplies :
          r.source = "Spamhaus DBL" /\ IgnoredCodes(r) # {} /\ RealCodes(r) = {}
    /\ \E r \in OracleReplies :
          r.source = "URIBL" /\ IgnoredCodes(r) # {} /\ RealCodes(r) # {}
    /\ ResultSources = {"URIBL"}

(***************************************************************************)
(* Properties of the liveness checker (SpecDD).                            *)
(***************************************************************************)
DeadReported == {deadDomains[k].domain : k \in 1..Len(deadDomains)}

\* C10: a checked domain is reported dead iff its resolution failed with
\* ENOTFOUND; one that resolved or failed otherwise is never in deadDomains.
C10_DeadIffNotFound ==
    /\ \A i \in 1..Len(ddLookups) :
          (ddLookups[i].domain \in DeadReported) <=> (ddLookups[i].code = "ENOTFOUND")
    /\ \A d \in DeadReported : \E i \in 1..Len(ddLookups) : ddLookups[i].domain = d
    /\ Len(ddFindings) > 0 =>
          {ddFindings[1].deadDomains[k].domain : k \in 1..Len(ddFindings[1].deadDomains)}
             = {ddLookups[i].domain : i \in {j \in 1..Len(ddLookups) : ddLookups[j].code = "ENOTFOUND"}}

\* C10 witness: one lookup failed with ENOTFOUND and another with a timeout,
\* and the report holds one dead domain.
C10_Witness ==
    /\ Len(ddFindings) > 0
    /\ Len(ddFindings[1].deadDomains) = 1
    /\ \E i \in 1..Len(ddLookups) : ddLookups[i].code = "ENOTFOUND"
    /\ \E i \in 1..Len(ddLookups) : ddLookups[i].code = "ETIMEOUT"

LookedUp == {ddLookups[i].domain : i \in 1..Len(ddLookups)}

\* C11: all lookups are launched together; the report is written and the
\* process exits only once every launched lookup has settled, whether it
\* failed or not, and the report holds everything the lookups recorded.
C11_ReportAfterAllLookups ==
    /\ ddPc \in {"await all", "exited"} =>
          /\ ddPending \cup LookedUp = Range(domainsToCheck)
          /\ ddPending \cap LookedUp = {}
    /\ (Len(ddFindings) > 0 \/ Len(ddExit) > 0) =>
          /\ ddPending = {}
          /\ Len(ddLookups) = Len(domainsToCheck)
          /\ ddFindings[1].deadDomains = deadDomains
          /\ ddFindings[1].totalChecked = Len(ddLookups)

\* C11 witness: the first of two lookups failed, the second resolved, and
\* only then was the report written.
C11_Witness ==
    /\ Len(ddFindings) > 0
    /\ Len(ddLookups) = 2
    /\ ddLookups[1].code # ""
    /\ ddLookups[2].code = ""

\* C12: the liveness checker exits 1 exactly when the deadDomains list it
\* wrote is non-empty and 0 otherwise; the report is written by the time
\* the process has exited.
C12_ExitOneIffDeadPersisted ==
    Len(ddExit) > 0 =>
       /\ Len(ddFindings) > 0
       /\ ddExit[1] \in {0, 1}
       /\ (ddExit[1] = 1) <=> (Len(ddFindings[1].deadDomains) > 0)

\* C12 witness: a run that exited 0 although one lookup failed (not with
\* ENOTFOUND), with the report written.
C12_Witness ==
    /\ ddExit = <<0>>
    /\ Len(ddFindings) > 0
    /\ \E i \in 1..Len(ddLookups) : ddLookups[i].code = "EREFUSED"

\* The sources addFinding has been called with for the URLs of a domain.
SourcesCalled(domain) == {c.source : c \in {x \in ddCalls : extractDomainDD(x.url) = domain}}

NoDuplicates(seq) == \A i, j \in 1..Len(seq) : seq[i] = seq[j] => i = j

\* C13: the sources of a domain are a set: after any sequence of addFinding
\* calls each source given for the domain is there exactly once, however
\* often the call was repeated.
C13_SourcesAreASet ==
    \A i \in 1..Len(domainSources) :
       /\ NoDuplicates(domainSources[i].sources)
       /\ Range(domainSources[i].sources) = SourcesCalled(domainSources[i].domain)

\* C13 witness: three references read, two of them identical, the third the
\* same URL on another page: the domain has both pages as sources.
C13_Witness ==
    /\ ddPc = "read"
    /\ ddRefs = 3
    /\ Cardinality(ddCalls) = 2
    /\ Len(domainSources) = 1
    /\ Len(domainSources[1].sources) = 2

\* C14: a dead domain is reported with every source recorded for it, from
\* page references and from script files, each once: nothing is recorded
\* after the lookups have been issued.
C14_DeadFindingHasAllSources ==
    /\ \A k \in 1..Len(deadDomains) :
          /\ Range(deadDomains[k].sources) = SourcesCalled(deadDomains[k].domain)
          /\ NoDuplicates(deadDomains[k].sources)
    /\ Len(ddFindings) > 0 =>
          \A k \in 1..Len(ddFindings[1].deadDomains) :
             Range(ddFindings[1].deadDomains[k].sources)
                = SourcesCalled(ddFindings[1].deadDomains[k].domain)

\* C14 witness: the report holds a dead domain that was found on a page and
\* in a script file, with both sources.
C14_Witness ==
    /\ Len(ddFindings) > 0
    /\ \E k \in 1..Len(ddFindings[1].deadDomains) :
          LET srcs == ddFindings[1].deadDomains[k].sources
          IN  /\ \E i \in 1..Len(srcs) : srcs[i][1] = "Found on Page: "
              /\ \E i \in 1..Len(srcs) : srcs[i][1] = "Found in Script File: "

\* C15: every domain of the mapping has at least one source, and a URL with
\* no extractable hostname creates no entry.
C15_EveryDomainHasASource ==
    /\ \A i \in 1..Len(domainSources) :
          /\ Len(domainSources[i].sources) > 0
          /\ domainSources[i].domain \notin {Null, Invalid}
    /\ {domainSources[i].domain : i \in 1..Len(domainSources)}
          = {extractDomainDD(c.url) : c \in ddCalls} \ {Null}

\* C15 witness: addFinding was called with an unparseable URL and with a
\* parseable one, and the mapping holds one domain.
C15_Witness ==
    /\ \E c \in ddCalls : extractDomainDD(c.url) = Null
    /\ Len(domainSources) = 1

LocalHost(d) ==
    \/ Includes(d, <<"localhost">>)
    \/ Includes(d, <<"127", ".", "0", ".", "0", ".", "1">>)
    \/ ~Includes(d, <<".">>)

\* The liveness checker issues no lookup for such a hostname.
DDNoQueryForLocalHost == \A d \in ddPending \cup LookedUp : ~LocalHost(d)

\* C16: neither the liveness checker nor the blacklist checker issues a DNS
\* query for a hostname that contains localhost or 127.0.0.1 or has no dot.
C16_NoQueryForLocalHost ==
    /\ DDNoQueryForLocalHost
    /\ Len(blQueried) > 0 => ~LocalHost(blDomain)

\* The URL-shaped words of a file whose hostname passes the filter.
CheckableHosts(file) ==
    {d \in {extractDomainDD(file.content[i]) :
               i \in {j \in 1..Len(file.content) : UrlShaped(file.content[j])}} :
        /\ ~Includes(d, <<"localhost">>)
        /\ ~Includes(d, <<"127", ".", "0", ".", "0", ".", "1">>)
        /\ Includes(d, <<".">>)}

\* The source a script file gives: its original URL and loading page when
\* downloaded_scripts.json has an entry of that filename, else its name.
ScriptSourceOf(file) ==
    IF \E i \in 1..Len(scriptMap) : scriptMap[i].filename = file.name
    THEN LET e == scriptMap[CHOOSE i \in 1..Len(scriptMap) : scriptMap[i].filename = file.name]
         IN  <<"Found in Script: ">> \o e.originalUrl \o <<" (loaded by ">>
                \o e.foundOnPage \o <<")">>
    ELSE <<"Found in Script File: ">> \o file.name \o <<" (source unknown)">>

Logged(kind) ==
    LET lines == SelectSeq(crConsole, LAMBDA l : l.kind = kind)
    IN  [i \in 1..Len(lines) |-> lines[i].url]

\* C18: in one crawl run no page URL is navigated to twice, whatever the
\* sitemap lists; the pages navigated to are pages of the visit list.
C18_PageVisitedAtMostOnce ==
    /\ NoDuplicates(Logged("visit"))
    /\ Range(Logged("visit")) \subseteq Range(pagesToVisit)
    /\ Range(Logged("visit")) = seenPages

\* C18 witness: the sitemap gave three URLs, nothing was cut or filtered,
\* and the finished run visited two pages: the sitemap named the seed or
\* named a page twice.
C18_Witness ==
    /\ crExit = <<0>>
    /\ Logged("sitemap pages") = << <<"3">> >>
    /\ Logged("limit") = <<>>
    /\ Logged("filtered out") = <<>>
    /\ Len(Logged("visit")) = 2

IsPrefix(s, t) == Len(s) <= Len(t) /\ SubSeq(t, 1, Len(s)) = s

\* The position of a page in the visit list.
PagePos(pageUrl) == CHOOSE k \in 1..Len(pagesToVisit) : pagesToVisit[k] = pageUrl

\* Right after the console line of a page failure comes the visit of the
\* next page of the list, or the end of the loop when it was the last; a
\* run that has visited a page does not end without writing the files; and
\* the files are written once every page of the list has been visited.
FailureGoesOn ==
    /\ \A i \in 1..Len(crConsole) :
          crConsole[i].kind = "page error" =>
             /\ i < Len(crConsole)
             /\ LET k == PagePos(crConsole[i].url)
                IN  IF k < Len(pagesToVisit)
                    THEN crConsole[i + 1] = Line("visit", pagesToVisit[k + 1])
                    ELSE crConsole[i + 1].kind = "complete"
    /\ (crPc = "exited" /\ Len(Logged("visit")) > 0) => Len(foundUrlsFile) > 0
    /\ Len(foundUrlsFile) > 0 =>
          /\ Logged("visit") = pagesToVisit
          /\ foundUrlsFile[1] = allFoundUrls
          /\ downloadedScriptsFile[1] = downloadedScriptsData

\* C19: a failure while visiting a page (navigation or either extraction)
\* does not end the crawl: the next page is visited, every page of the list
\* is visited by the end, and what was recorded before is kept.
C19_PageFailureDoesNotAbort ==
    [][ /\ FailureGoesOn'
        /\ IsPrefix(allFoundUrls, allFoundUrls')
        /\ IsPrefix(downloadedScriptsData, downloadedScriptsData') ]_vars

\* C19 witness: of three pages the first was recorded and gave a script, the
\* second failed, the third was visited and recorded, and the files hold
\* the records of the first and the third.
C19_Witness ==
    /\ crExit = <<0>>
    /\ Len(pagesToVisit) = 3
    /\ Logged("page error") = <<pagesToVisit[2]>>
    /\ Len(foundUrlsFile[1]) = 2
    /\ foundUrlsFile[1][1].page = pagesToVisit[1]
    /\ foundUrlsFile[1][2].page = pagesToVisit[3]
    /\ Len(downloadedScriptsFile[1]) > 0
    /\ downloadedScriptsFile[1][1].foundOnPage = pagesToVisit[1]

\* C20: a script URL is downloaded at most once in a run; a URL is marked
\* seen in the step that decides on it, so one being downloaded, one whose
\* download failed and one that was skipped are all in seenScripts, and none
\* of them is tried again.
C20_AtMostOneDownloadPerScript ==
    /\ NoDuplicates(Logged("download"))
    /\ NoDuplicates(Logged("skip"))
    /\ Range(Logged("download")) \cap Range(Logged("skip")) = {}
    /\ Range(Logged("download")) \cup Range(Logged("skip"))
          \cup Range(Logged("script error")) \subseteq seenScripts
    /\ \A i \in 1..Len(crInflight) : crInflight[i].url \in seenScripts
    /\ \A i \in 1..Len(downloadedScriptsData) :
          downloadedScriptsData[i].originalUrl \in Range(Logged("download"))

\* C20 witness: the download of a script failed on the first page, the
\* script is on the second page too, and the script loop of the second page
\* went past it to the next script without another attempt.
C20_Witness ==
    /\ Len(pagesToVisit) >= 2
    /\ pagesToVisit[1] = Seed
    /\ pagesToVisit[2] = BlogPage
    /\ \E i, j \in 1..Len(crConsole) :
          /\ i < j
          /\ crConsole[i] = Line("script error", AppScript)
          /\ crConsole[j].url = CdnScript
    /\ Len(SelectSeq(crConsole, LAMBDA l : l = Line("download", AppScript))) = 1

\* The configured skip list, and whether the hostname of a script URL is an
\* entry of it or ends with a dot and an entry.
SkipList ==
    IF crEnv.SKIP_SCRIPT_DOMAINS = <<>> THEN DefaultSkipDomains
    ELSE SelectSeq(crEnv.SKIP_SCRIPT_DOMAINS, LAMBDA e : e # <<>>)

HostOf(scriptUrl) ==
    LET afterScheme == SubSeq(scriptUrl, 5, Len(scriptUrl))
        firstSlash == CHOOSE i \in 1..Len(afterScheme) :
                         /\ afterScheme[i] = "/"
                         /\ \A j \in 1..(i - 1) : afterScheme[j] # "/"
    IN  SubSeq(afterScheme, 1, firstSlash - 1)

OnSkipList(scriptUrl) ==
    LET h == HostOf(scriptUrl)
    IN  \E k \in 1..Len(SkipList) :
           LET e == SkipList[k]
           IN  \/ h = e
               \/ /\ Len(h) > Len(e) + 1
                  /\ SubSeq(h, Len(h) - Len(e), Len(h)) = <<".">> \o e

\* C21: a script whose hostname is a skip-list entry or a subdomain of one
\* is never downloaded, recorded or counted; any other script the loop
\* decides on is not skipped: its download is started.
C21_SkipListDecidesDownload ==
    /\ \A u \in seenScripts :
          IF OnSkipList(u)
          THEN /\ u \notin Range(Logged("download"))
               /\ \A i \in 1..Len(downloadedScriptsData) :
                     downloadedScriptsData[i].originalUrl # u
               /\ \A f \in jsAssets : f.content # u
               /\ \A i \in 1..Len(crInflight) : crInflight[i].url # u
          ELSE /\ u \notin Range(Logged("skip"))
               /\ u \in Range(Logged("download"))
    /\ downloadedScriptsCount
          = Len(SelectSeq(downloadedScriptsData, LAMBDA e : ~OnSkipList(e.originalUrl)))
    /\ Len(downloadedScriptsFile) > 0 =>
          \A i \in 1..Len(downloadedScriptsFile[1]) :
             ~OnSkipList(downloadedScriptsFile[1][i].originalUrl)

\* C21 witness: with b.com and a.com on the skip list a script on a.com and
\* one on cdn.b.com were skipped, and the tag-manager script, on neither,
\* was downloaded and is the only one recorded and counted.
C21_Witness ==
    /\ crExit = <<0>>
    /\ Range(Logged("skip")) = {AppScript, CdnScript}
    /\ Len(downloadedScriptsFile[1]) = 1
    /\ downloadedScriptsFile[1][1].originalUrl = TagScript
    /\ scanMetadata[1].downloadedScriptCount = 1

\* C22: two recorded scripts of different URLs have different local
\* filenames, and the file of each holds that script: none was overwritten.
C22_DistinctLocalFilenames ==
    /\ \A i, j \in 1..Len(downloadedScriptsData) :
          downloadedScriptsData[i].originalUrl # downloadedScriptsData[j].originalUrl
             => downloadedScriptsData[i].filename # downloadedScriptsData[j].filename
    /\ \A i \in 1..Len(downloadedScriptsData) :
          [name |-> downloadedScriptsData[i].filename,
           content |-> downloadedScriptsData[i].originalUrl] \in jsAssets

\* The configured prefixes, and whether the path of a page URL starts with a
\* skip prefix and with no include prefix.
ConfiguredPrefixes(entries) == {entries[k] : k \in {l \in 1..Len(entries) : entries[l] # <<>>}}

ExcludedByPrefix(pageUrl) ==
    LET urlPath == URLPathname(pageUrl)
    IN  /\ \E pre \in ConfiguredPrefixes(crEnv.SKIP_URL_PREFIXES) : StartsWith(urlPath, pre)
        /\ ~\E pre \in ConfiguredPrefixes(crEnv.INCLUDE_URL_PREFIXES) : StartsWith(urlPath, pre)

\* A page of the list before the filter is left out of the visit list, and
\* not visited by the end of the run, exactly when the prefixes exclude it.
ExcludedIff(pages) ==
    /\ crPc \notin {"idle", "start", "await sitemap"} =>
          \A u \in pages : (u \notin Range(pagesToVisit)) <=> ExcludedByPrefix(u)
    /\ Len(crExit) > 0 =>
          \A u \in pages : (u \notin Range(Logged("visit"))) <=> ExcludedByPrefix(u)

\* C23: a page of the visit list is excluded from the crawl iff its URL
\* path starts with a skip prefix and with no include prefix.
C23_ExcludedIffSkipAndNotInclude == ExcludedIff(Range(crCandidates))

\* The same, for runs whose list before the filter holds URLs only.
ExcludedIffOnUrls ==
    (\A u \in Range(crCandidates) : URLPathname(u) # Invalid)
       => ExcludedIff(Range(crCandidates))

\* The entries of list at the positions where a value occurs for the first
\* time, in the order of list.
FirstOccurrences(list) ==
    LET first == SelectSeq([i \in 1..Len(list) |-> i],
                           LAMBDA i : \A j \in 1..(i - 1) : list[j] # list[i])
    IN  [k \in 1..Len(first) |-> list[first[k]]]

\* The first n entries of list, all of them when there are no more than n.
FirstN(list, n) == SubSeq(list, 1, IF Len(list) > n THEN n ELSE Len(list))

\* C24: once the sitemap is resolved, the list of pages to crawl (before the
\* prefix filter) is the seed URL followed by the sitemap URLs, with only the
\* first occurrence of every URL kept in discovery order, cut to its first
\* maxPagesToVisit entries when there are more; being a function of the seed
\* and the sitemap URLs, the same input gives the same list in the same order.
C24_MergedFirstOccurrencesFirstN ==
    crPc \notin {"idle", "start", "await sitemap"} /\ crArgs # <<>>
       => crCandidates =
             FirstN(FirstOccurrences(<<crArgs[1]>> \o sitemapPages), maxPagesToVisit)

\* Seed and three further pages were discovered, one more than the ceiling:
\* the last one discovered is dropped.
C24_Witness ==
    /\ sitemapPages = <<KeptPage, BlogPage, NotAUrl>>
    /\ crCandidates = <<Seed, KeptPage, BlogPage>>
    /\ Len(Logged("limit")) > 0

(***************************************************************************)
(* Properties of the sitemap resolver (SpecSM).                            *)
(***************************************************************************)

\* The sitemap URLs of the console lines of one kind, in order.
SMLogged(kind) ==
    LET lines == SelectSeq(smConsole, LAMBDA l : l.kind = kind)
    IN  [i \in 1..Len(lines) |-> lines[i].url]

RECURSIVE Flatten(_)
Flatten(lists) ==
    IF lists = <<>> THEN <<>> ELSE Head(lists) \o Flatten(Tail(lists))

\* The page URLs below a sitemap URL: the loc values of a url set in
\* document order, the lists of the children of an index one after the
\* other, nothing for anything else.
RECURSIVE UrlsBelow(_, _)
UrlsBelow(web, url) ==
    LET doc == web[url]
    IN  CASE doc.kind = "urlset" -> doc.locs
          [] doc.kind = "sitemapindex" ->
                 Flatten([k \in 1..Len(doc.locs) |-> UrlsBelow(web, doc.locs[k])])
          [] OTHER -> <<>>

Failing(doc) == doc.kind \in {"goto fails", "fetch fails", "parse fails"}

\* C25: a finished resolution returns, for a url set, its loc values in
\* document order and, for a sitemap index, the URL lists of its child
\* sitemaps one after the other in the order the children are listed.
C25_IndexIsConcatenationInOrder ==
    smPc = "done" => smResult = <<UrlsBelow(smWeb, sitemapUrl)>>

\* An index of two url sets of two URLs each resolved to four URLs, the
\* first child's two in front.
C25_Witness ==
    /\ smPc = "done"
    /\ smWeb[sitemapUrl] = [kind |-> "sitemapindex", locs |-> <<SitemapA, SitemapB>>]
    /\ smWeb[SitemapA] = [kind |-> "urlset", locs |-> <<BlogPage, KeptPage>>]
    /\ smWeb[SitemapB] = [kind |-> "urlset", locs |-> <<Seed, BlogPage>>]
    /\ smResult = <<<<BlogPage, KeptPage, Seed, BlogPage>>>>

\* C26: a failure of page.goto, of the fetch or of the XML parser on one
\* sitemap gives the empty list for that sitemap only: in a finished
\* resolution every entry of every index that was read has been fetched, the
\* ones after a failed sitemap included, and the URLs of every url set that
\* was read are in the result.
C26_FailureIsLocalToItsNode ==
    smPc = "done" =>
        /\ Len(smResult) = 1
        /\ \A u \in Range(SMLogged("fetch sitemap")) :
              /\ smWeb[u].kind = "sitemapindex"
                    => Range(smWeb[u].locs) \subseteq Range(SMLogged("fetch sitemap"))
              /\ smWeb[u].kind = "urlset"
                    => Range(smWeb[u].locs) \subseteq Range(smResult[1])

\* The second of three children failed, the index still resolved to the URLs
\* of the first and of the third.
C26_Witness ==
    /\ smPc = "done"
    /\ smWeb[sitemapUrl] = [kind |-> "sitemapindex", locs |-> <<SitemapA, SitemapB, SitemapA>>]
    /\ smWeb[SitemapA] = [kind |-> "urlset", locs |-> <<BlogPage, KeptPage>>]
    /\ Failing(smWeb[SitemapB])
    /\ SMLogged("sitemap error") = <<SitemapB>>
    /\ smResult = <<<<BlogPage, KeptPage, BlogPage, KeptPage>>>>

\* C27: no sitemap is resolved inside its own resolution.  Every sitemap URL
\* answers the same document each time, so a call of parseSitemap nested in a
\* call for the same URL nests another one in turn, without end.
C27_NoSitemapInsideItself ==
    NoDuplicates([k \in 1..Len(smStack) |-> smStack[k].url])

(***************************************************************************)
(* Properties of the malicious-URL checker and the reporter (SpecReport).  *)
(***************************************************************************)

SBLogged(kind) == {k \in 1..Len(sbConsole) : sbConsole[k].kind = kind}

\* The status of safebrowsing-report.json, "" when there is no report.
SBStatus == IF sbReport = <<>> THEN "" ELSE sbReport[1].status

\* What a checker run without a key leaves behind, and what the reporter
\* makes of it: no request, a report that says "skipped", exit code 0, and a
\* total that is the sum of the other four counts.
SkippedAndNotCounted ==
    /\ sbRequests = <<>>
    /\ SBStatus = "skipped"
    /\ sbExit = <<0>>
    /\ rpPc = "done" =>
          totalIssues = <<retireIssuesOf(retireReport[1]) + clamavIssuesOf(clamavReport[1])
                          + deadDomainIssuesOf(deadDomainsReport[1])
                          + blacklistIssuesOf(blacklistReport[1])>>

\* C28 as stated: whenever GOOGLE_SAFE_BROWSING_KEY is unset, the checker
\* ends without an API request, with a report of status "skipped" and with
\* exit code 0, and the report adds nothing to the total issue count.
C28_SkippedWhenKeyUnset ==
    sbPc = "exited" /\ missingKey(sbKey) => SkippedAndNotCounted

\* C28: the same for the runs that are given a target; without a target the
\* checker exits with code 1 before it looks at the key or writes a report.
C28_SkippedWhenKeyUnsetGivenTarget ==
    /\ sbPc = "exited" /\ missingKey(sbKey) /\ sbArgs # <<>> => SkippedAndNotCounted
    /\ sbPc = "exited" /\ sbArgs = <<>> => sbReport = <<>> /\ sbExit = <<1>>

\* A run without a key was skipped, and the reporter found a listed domain
\* and nothing else: the total is 1.
C28_Witness ==
    /\ sbKey = <<>>
    /\ sbArgs # <<>>
    /\ SBStatus = "skipped"
    /\ rpPc = "done"
    /\ blacklistReport[1].status = "listed"
    /\ totalIssues = <<1>>

\* C29: a run whose API request failed with a network error ends with a
\* report of status "error" and with exit code 0, and no exception leaves
\* the checker.
C29_NetworkErrorIsReported ==
    sbPc = "exited" /\ SBLogged("request error") # {} =>
        /\ SBStatus = "error"
        /\ sbExit = <<0>>
        /\ SBLogged("uncaught exception") = {}

\* The number of dead domains dead-domains.json lists.
DeadDomainCount ==
    IF deadDomainsReport[1].deadDomains = <<>> THEN 0 ELSE deadDomainsReport[1].deadDomains[1]

\* C30: the total issue count is the number of dead domains, plus 1 iff the
\* blacklist status is "listed", plus 1 iff the safe-browsing status is
\* "unsafe", plus the retire.js and ClamAV counts.
C30_TotalCountsEveryCheck ==
    rpPc = "done" =>
        totalIssues = <<DeadDomainCount
                        + (IF blacklistReport[1].status = "listed" THEN 1 ELSE 0)
                        + (IF SBStatus = "unsafe" THEN 1 ELSE 0)
                        + retireIssues + clamavIssues>>

\* The same sum without the safe-browsing term.
TotalWithoutSafeBrowsing ==
    rpPc = "done" =>
        totalIssues = <<DeadDomainCount
                        + (IF blacklistReport[1].status = "listed" THEN 1 ELSE 0)
                        + retireIssues + clamavIssues>>

\* C31: the label of the mail subject is "Clean" iff the total issue count
\* is zero and "Issues Found" otherwise; it is "Issues Found" only when
\* retire.js, ClamAV or the liveness checker counted something or the
\* blacklist status is "listed", so a blacklist status of "blocked", "clean"
\* or "error" and a skipped safe-browsing check never turn it.
C31_LabelCleanIffNoIssues ==
    subject # <<>> =>
        /\ subject = <<IF totalIssues = <<0>> THEN "Clean" ELSE "Issues Found">>
        /\ subject = <<"Issues Found">> =>
              \/ retireIssues + clamavIssues + DeadDomainCount > 0
              \/ blacklistReport[1].status = "listed"

\* A run with a blocked blacklist query and a skipped safe-browsing check
\* and nothing else was mailed as "Clean".
C31_Witness ==
    /\ mailSent = "ok"
    /\ subject = <<"Clean">>
    /\ blacklistReport[1].status = "blocked"
    /\ SBStatus = "skipped"

\* A report file that is not there or does not parse.
Unreadable(report) == report.kind \in {"absent", "unparsable"}

\* The report a checker writes when it has found nothing, in place of one
\* that is unreadable.
OrNothingFound(report, nothing) == IF Unreadable(report) THEN nothing ELSE report

TotalAsIfNothingFound ==
    retireIssuesOf(OrNothingFound(retireReport[1], [kind |-> "array", files |-> <<>>]))
      + clamavIssuesOf(OrNothingFound(clamavReport[1], [kind |-> "text", infected |-> <<0>>]))
      + deadDomainIssuesOf(OrNothingFound(deadDomainsReport[1],
                                          [kind |-> "object", deadDomains |-> <<0>>]))
      + blacklistIssuesOf(OrNothingFound(blacklistReport[1],
                                         [kind |-> "object", status |-> "clean"]))

\* C40: a report file that is missing or does not parse counts for zero and
\* does not stop the reporter: the total and the label of the run are those
\* of the run in which that checker had written a report without findings.
C40_UnreadableReportCountsZero ==
    rpPc \notin {"idle", "start"} =>
        /\ Unreadable(retireReport[1]) => retireIssues = 0
        /\ Unreadable(clamavReport[1]) => clamavIssues = 0
        /\ Unreadable(deadDomainsReport[1]) => deadDomainIssues = 0
        /\ Unreadable(blacklistReport[1]) => blacklistIssues = 0
        /\ rpPc \in {"await mail", "done"} =>
              /\ totalIssues = <<TotalAsIfNothingFound>>
              /\ reportHtml # <<>>
        /\ subject # <<>> =>
              subject = <<IF TotalAsIfNothingFound > 0 THEN "Issues Found" ELSE "Clean">>

\* C40 witness: none of the four reports could be read, one of them no
\* JSON, and the run was mailed as "Clean" with a total of 0.
C40_Witness ==
    /\ mailSent = "ok"
    /\ retireReport[1].kind = "unparsable"
    /\ clamavReport[1].kind = "absent"
    /\ deadDomainsReport[1].kind = "absent"
    /\ blacklistReport[1].kind = "unparsable"
    /\ totalIssues = <<0>>
    /\ subject = <<"Clean">>

(***************************************************************************)
(* Properties of the two normalizers (SpecNorm).                           *)
(***************************************************************************)

\* C32: for a host h and a path p, extractDomain of the blacklist checker
\* returns for "//h/p" what it returns for "https://h/p", and so does
\* extractDomain of the liveness checker.
C32_ProtocolRelativeSameHostname ==
    /\ nmBL # <<>> /\ nmBL["relative"] # <<>> /\ nmBL["absolute"] # <<>>
          => nmBL["relative"] = nmBL["absolute"]
    /\ nmDD # <<>> /\ nmDD["relative"] # <<>> /\ nmDD["absolute"] # <<>>
          => nmDD["relative"] = nmDD["absolute"]

\* Both functions were applied to "//cdn.b.com/p/q" and to
\* "https://cdn.b.com/p/q", and all four results are cdn.b.com.
C32_Witness ==
    /\ nmHost = <<"cdn", ".", "b", ".", "com">>
    /\ nmPath = <<"/", "p", "/", "q">>
    /\ \A form \in NMForms :
          /\ nmBL[form] = <<nmHost>>
          /\ nmDD[form] = <<nmHost>>

(***************************************************************************)
(* Further properties of the blacklist checker (SpecBL).                   *)
(***************************************************************************)

\* C35: the listed flag is monotonic: once it is set no step of the checker,
\* whatever the oracle or resolve4 answered, clears it, and every detail
\* line recorded so far stays in details, in its place.
C35_ListedIsMonotonic ==
    [][ /\ listed => listed'
        /\ IsPrefix(details, details')
        /\ Len(details') > 0 => listed' ]_vars

\* C35 witness: Spamhaus DBL gave a real listing; after it one oracle
\* answered not-found, one answered only an ignore code, resolve4 failed,
\* and the run ended listed with that one detail line.
C35_Witness ==
    /\ blPc = "exited"
    /\ listed
    /\ Len(details) = 1
    /\ details[1][1] = "Spamhaus DBL"
    /\ \E r \in OracleReplies : r.source = "SURBL" /\ ~r.reply.ok
    /\ \E r \in OracleReplies :
          r.source = "URIBL" /\ IgnoredCodes(r) # {} /\ RealCodes(r) = {}
    /\ \E i \in 1..Len(blReplies) :
          blReplies[i].source = "resolve4" /\ ~blReplies[i].reply.ok

(***************************************************************************)
(* Further properties of the liveness checker (SpecDD).                    *)
(***************************************************************************)
\* The hostnames of the URLs addFinding was called with.
ParsedDomains == {extractDomainDD(c.url) : c \in ddCalls} \ {Null}

LookupDomains == [i \in 1..Len(ddLookups) |-> ddLookups[i].domain]

DeadDomainNames == [k \in 1..Len(deadDomains) |-> deadDomains[k].domain]

NotFound == {ddLookups[i].domain : i \in {j \in 1..Len(ddLookups) : ddLookups[j].code = "ENOTFOUND"}}

\* C36: in whatever order the callbacks of dns.resolve arrive, one lookup is
\* issued for each distinct domain that passed the filter and none for any
\* other, no domain is in deadDomains twice, the dead domains are those
\* whose lookup ended with ENOTFOUND whatever the order, and there are never
\* more of them than totalChecked.
C36_OneLookupPerDomainAnyOrder ==
    ddPc \in {"await all", "exited"} =>
        /\ NoDuplicates(domainsToCheck)
        /\ Range(domainsToCheck) = {d \in ParsedDomains : ToCheck(d)}
        /\ NoDuplicates(LookupDomains)
        /\ Range(LookupDomains) \cup ddPending = Range(domainsToCheck)
        /\ NoDuplicates(DeadDomainNames)
        /\ Range(DeadDomainNames) = NotFound
        /\ Len(deadDomains) <= Len(domainsToCheck)
        /\ Len(ddFindings) > 0 =>
              /\ Len(ddFindings[1].deadDomains) <= ddFindings[1].totalChecked
              /\ ddFindings[1].totalChecked = Len(ddLookups)

\* C36 witness: two domains were checked, the callback of the second came
\* first, both ended with ENOTFOUND, and the report holds both, once each.
C36_Witness ==
    /\ Len(ddFindings) > 0
    /\ Len(domainsToCheck) = 2
    /\ LookupDomains = <<domainsToCheck[2], domainsToCheck[1]>>
    /\ Len(ddFindings[1].deadDomains) = 2
    /\ ddFindings[1].totalChecked = 2

(***************************************************************************)
(* Further properties of the crawler (SpecCR).                             *)
(***************************************************************************)

\* The scripts whose download was started and has completed: those with a
\* download line, without an error line, and not awaited at present.
Downloaded ==
    (Range(Logged("download")) \ Range(Logged("script error")))
        \ {crInflight[i].url : i \in 1..Len(crInflight)}

RecordedUrls == [i \in 1..Len(downloadedScriptsData) |-> downloadedScriptsData[i].originalUrl]

\* C37: at every point of the crawl downloadedScriptsCount is the length of
\* downloadedScriptsData, and the recorded scripts are, once each, the
\* scripts whose download completed; a skipped script and one whose
\* download failed is neither counted nor recorded, and the files written
\* at the end say the same.
C37_CountIsRecordedIsDownloaded ==
    /\ downloadedScriptsCount = Len(downloadedScriptsData)
    /\ NoDuplicates(RecordedUrls)
    /\ Range(RecordedUrls) = Downloaded
    /\ Range(RecordedUrls) \cap Range(Logged("skip")) = {}
    /\ Range(RecordedUrls) \cap Range(Logged("script error")) = {}
    /\ Len(scanMetadata) > 0 =>
          scanMetadata[1].downloadedScriptCount = Len(downloadedScriptsFile[1])

\* C37 witness: of three scripts one was skipped by its domain, the
\* download of one failed and one succeeded; the run ended with a count of
\* one and one record.
C37_Witness ==
    /\ crExit = <<0>>
    /\ Len(Logged("skip")) = 1
    /\ Len(Logged("download")) = 2
    /\ Len(Logged("script error")) = 1
    /\ scanMetadata[1].downloadedScriptCount = 1
    /\ Len(downloadedScriptsFile[1]) = 1

RecordedPages == [i \in 1..Len(allFoundUrls) |-> allFoundUrls[i].page]

\* The pages whose visit is over: attempted, and not the one being visited.
VisitOver ==
    IF crPc \in {"await goto", "await urls"} THEN seenPages \ {pagesToVisit[crIdx]}
    ELSE seenPages

\* C38: scannedUrlCount is the number of pages whose visit was attempted,
\* failed ones included, and is at most maxPagesToVisit; the URL records
\* hold a page at most once, only a page that was attempted, that loads and
\* whose URLs were extracted, and every page whose visit went without an
\* error; so found_urls.json is never longer than scannedUrlCount.
C38_ScannedCountsAttempts ==
    /\ seenPages = Range(Logged("visit"))
    /\ NoDuplicates(Logged("visit"))
    /\ Cardinality(seenPages) <= maxPagesToVisit
    /\ NoDuplicates(RecordedPages)
    /\ Range(RecordedPages) \subseteq seenPages
    /\ \A i \in 1..Len(allFoundUrls) :
          /\ URLHostname(allFoundUrls[i].page) # Invalid
          /\ allFoundUrls[i].urls = CRSite(allFoundUrls[i].page).urls
    /\ VisitOver \ Range(Logged("page error")) \subseteq Range(RecordedPages)
    /\ Len(allFoundUrls) <= Cardinality(seenPages)
    /\ Len(scanMetadata) > 0 =>
          /\ scanMetadata[1].scannedUrlCount = Len(Logged("visit"))
          /\ scanMetadata[1].scannedUrlCount <= maxPagesToVisit
          /\ Len(foundUrlsFile[1]) <= scanMetadata[1].scannedUrlCount

\* C38 witness: the sitemap named more pages than the limit, three were
\* attempted, one of them no URL at all; two visits failed, and the run
\* ended with scannedUrlCount 3 and one record in found_urls.json.
C38_Witness ==
    /\ crExit = <<0>>
    /\ Len(Logged("limit")) = 1
    /\ NotAUrl \in seenPages
    /\ Len(Logged("page error")) = 2
    /\ scanMetadata[1].scannedUrlCount = maxPagesToVisit
    /\ Len(foundUrlsFile[1]) = 1

\* C34: whatever the sitemap supplied and whichever navigation, extraction
\* or download failed, a crawler run that was given a target and has ended
\* has written found_urls.json, downloaded_scripts.json and
\* scan-metadata.json, and ended with code 0.
C34_RunWritesItsFiles ==
    crPc = "exited" /\ crArgs # <<>> =>
        /\ foundUrlsFile # <<>>
        /\ downloadedScriptsFile # <<>>
        /\ scanMetadata # <<>>
        /\ crExit = <<0>>

(***************************************************************************)
(* Properties of the scan pipeline (SpecPipeline).                         *)
(***************************************************************************)
CheckStages == {"check-dead-domains", "check-blacklist", "check-safebrowsing",
                "retire", "clamscan"}

RanBefore(i) == {plRan[j].name : j \in 1..(i - 1)}

\* C39: the report stage starts only when the dead-domain, blacklist,
\* safe-browsing, retire.js and ClamAV stages have all ended, and the exit
\* code of a check stage, whatever it is, does not end the script: once the
\* download has succeeded every check stage and the report stage run.
C39_ReportAfterChecksWhateverTheyReturn ==
    /\ \A i \in 1..Len(plRan) :
          plRan[i].name = "send-report" => CheckStages \subseteq RanBefore(i)
    /\ \A i \in 1..Len(plRan) :
          plRan[i].name \in CheckStages /\ i = Len(plRan) =>
              /\ plPc # 0
              /\ plExit = <<>>
    /\ plPc = 0 /\ plRan # <<>> /\ plRan[1].code = 0 =>
          CheckStages \cup {"send-report"} \subseteq RanBefore(Len(plRan) + 1)

\* C39 witness: all five check stages ended with code 1, the report stage
\* ran after them and the script ended with code 0.
C39_Witness ==
    /\ plExit = <<0>>
    /\ \A i \in 1..Len(plRan) : plRan[i].name \in CheckStages => plRan[i].code = 1
    /\ \E i \in 1..Len(plRan) :
          /\ plRan[i].name = "send-report"
          /\ plRan[i].code = 0
          /\ CheckStages \subseteq RanBefore(i)

(***************************************************************************)
(* Properties of the checkers on input that does not parse                 *)
(* (SpecMalformed).                                                        *)
(***************************************************************************)

\* C33: an input the normalizer cannot parse is dropped by the caller: the
\* liveness checker holds a domain entry and issues a lookup only for
\* hostnames that parsed, and the blacklist checker, given a target that
\* does not parse, sends no oracle or DNS query.
C33_MalformedInputDropped ==
    /\ \A i \in 1..Len(domainSources) : domainSources[i].domain \in ParsedDomains
    /\ LookedUp \cup ddPending \subseteq ParsedDomains
    /\ blArgs # <<>> /\ blArgs[1] \in BLMalformedInputs =>
          /\ blQueried = <<>>
          /\ blInflight = {}

====
